---- MODULE Spec2Model ----
(***************************************************************************)
(* A state-machine model of the pizza-store backend: the session cart,     *)
(* checkout (CreateOrder), promotions, the order life cycle, the POS order *)
(* entry and the inventory ledger.                                         *)
(*                                                                         *)
(* Money is an integer number of cents (the DecimalFields have two decimal *)
(* places).  A Decimal computed in memory and not yet saved (a discount, a *)
(* total) is carried exactly, in hundredths of a cent ("fine" units), and  *)
(* is quantized to cents when the row is saved.                            *)
(***************************************************************************)
EXTENDS Integers, Sequences, FiniteSets, TLC

(***************************************************************************)
(* Bounds of the model.                                                    *)
(***************************************************************************)
MaxQty == 2
MaxLines == 2
MaxLineQty == 2
MaxOrders == 1
MaxTime == 2
MaxStock == 4
MaxMovements == 2

(***************************************************************************)
(* Optional values (None / a value) and Python truthiness.                 *)
(***************************************************************************)
None == << >>
Some(v) == << v >>
IsSet(x) == x # << >>
Val(x) == x[1]
\* Python's "if x:" on an optional number: None and 0 are both falsy.
Truthy(x) == IsSet(x) /\ Val(x) # 0
\* Python's "if x:" on an optional string: None and "" are both falsy.
HasText(x) == IsSet(x) /\ Val(x) # ""

Min(a, b) == IF a <= b THEN a ELSE b
Max(a, b) == IF a >= b THEN a ELSE b

VARIABLES
    carts,       \* session -> the cart's lines, oldest first
    cartExists,  \* session -> whether a Cart row exists for the session
    orders,      \* the Order rows, each with its OrderItems, oldest first
    promos,      \* code -> None or Some(promotion row)
    stock,       \* product -> None or Some(StockItem row)
    movements,   \* the StockMovement ledger, oldest first
    alerts,      \* the StockAlert rows, oldest first
    now,         \* the clock
    last,        \* what the last request was and how it ended
    txn,         \* process -> position and locals of a request in flight
    catalog      \* the menu: product rows, prices and included items

vars == << carts, cartExists, orders, promos, stock, movements, alerts, now, last, txn,
          catalog >>

(***************************************************************************)
(* The catalog: a menu of two products, two sizes and two toppings.  The   *)
(* product rows, the prices and the included items can be edited; what a   *)
(* product allows and tracks is fixed.                                     *)
(***************************************************************************)
Products == {1, 2}
Sizes == {1, 2}
Toppings == {1, 2}
NoSize == 0

InitialCatalog ==
    [products |-> Products,
     base_price |-> [p \in Products |-> IF p = 1 THEN 10 ELSE 8],
     price_modifier |-> [s \in Sizes |-> IF s = 1 THEN 3 ELSE 1],
     topping_price |-> [t \in Toppings |-> IF t = 1 THEN 2 ELSE 1],
     included_items |-> [p \in Products |-> IF p = 2 THEN << "chips" >> ELSE << >>]]

base_price(p) == catalog.base_price[p]
price_modifier(s) == catalog.price_modifier[s]
topping_price(t) == catalog.topping_price[t]
available_sizes(p) == IF p = 1 THEN {1} ELSE {2}
available_toppings(p) == IF p = 1 THEN {1, 2} ELSE {1}
is_combo(p) == p = 2
included_items(p) == catalog.included_items[p]
track_inventory(p) == p = 1
reorder_level(p) == 1

\* Product 2 has a sale price that applies from time 1 on, with no end date.
sale_price(p) == IF p = 2 THEN Some(6) ELSE None
sale_start_date(p) == IF p = 2 THEN Some(1) ELSE None
sale_end_date(p) == None

\* team/models.py: StoreSettings.delivery_fee, at its default of 5.00
StoreSettings_delivery_fee == 5

(***************************************************************************)
(* Actors.  "anon" is an unauthenticated request; "clerk" is a staff user  *)
(* whose can_manage_orders flag is off; "admin" has the admin role;        *)
(* "customer" is a signed-in user with no role and no staff flag.          *)
(***************************************************************************)
Actors == {"anon", "clerk", "admin"}
AllActors == Actors \cup {"customer"}
is_authenticated(u) == u # "anon"
is_admin(u) == u = "admin"
is_staff_member(u) == u = "clerk"
can_manage_orders(u) == FALSE
can_manage_promotions(u) == FALSE
has_promotion_permission(u) == is_admin(u) \/ (is_staff_member(u) /\ can_manage_promotions(u))
\* has_order_permission granted to every staff member
has_order_permission_any_staff(u) == is_admin(u) \/ is_staff_member(u)
has_order_permission(u) == is_admin(u) \/ (is_staff_member(u) /\ can_manage_orders(u))
can_manage_products(u) == FALSE
has_product_permission(u) == is_admin(u) \/ (is_staff_member(u) /\ can_manage_products(u))
\* Django's is_staff / is_superuser flags, read by the inventory and POS gates.
is_staff_or_superuser(u) == u \in {"clerk", "admin"}

Sessions == {1, 2}

RECURSIVE SumPrices(_)
\* sum(Decimal(str(t['price'])) for t in toppings)
SumPrices(ts) == IF ts = << >> THEN 0 ELSE ts[1].price + SumPrices(Tail(ts))

RECURSIVE SumSubtotals(_)
SumSubtotals(items) ==
    IF items = << >> THEN 0 ELSE items[1].subtotal + SumSubtotals(Tail(items))

Reverse(seq) == [i \in 1..Len(seq) |-> seq[Len(seq) + 1 - i]]

(***************************************************************************)
(* products/models.py: the price of a product at the current time          *)
(***************************************************************************)
is_on_sale(p) ==
    IF ~Truthy(sale_price(p)) THEN FALSE
    ELSE IF IsSet(sale_start_date(p)) /\ now < Val(sale_start_date(p)) THEN FALSE
    ELSE IF IsSet(sale_end_date(p)) /\ now > Val(sale_end_date(p)) THEN FALSE
    ELSE TRUE

get_current_base_price(p) == IF is_on_sale(p) THEN Val(sale_price(p)) ELSE base_price(p)

(***************************************************************************)
(* cart/utils.py                                                           *)
(***************************************************************************)
RECURSIVE format_toppings_for_storage(_)
\* ids that name no Topping are skipped; the others become {id, price} dicts
format_toppings_for_storage(ids) ==
    IF ids = << >> THEN << >>
    ELSE IF ids[1] \in Toppings
         THEN << [id |-> ids[1], price |-> topping_price(ids[1])] >>
              \o format_toppings_for_storage(Tail(ids))
         ELSE format_toppings_for_storage(Tail(ids))

calculate_item_price(p, size, toppings) ==
    get_current_base_price(p)
    + (IF size # NoSize /\ size \in available_sizes(p) THEN price_modifier(size) ELSE 0)
    + SumPrices(toppings)

\* the multiset of topping ids of a stored topping list, as id -> count
IdCount(ts, t) == Cardinality({i \in 1..Len(ts) : ts[i].id = t})
\* toppings_match comparing the two lists position by position
toppings_match_in_order(ts1, ts2) == ts1 = ts2

toppings_match(ts1, ts2) ==
    IF ts1 = << >> /\ ts2 = << >> THEN TRUE
    ELSE IF ts1 = << >> \/ ts2 = << >> THEN FALSE
    ELSE \A t \in Toppings : IdCount(ts1, t) = IdCount(ts2, t)

LineMatches(line, p, size, toppings, combo) ==
    /\ line.product = p
    /\ line.size = size
    /\ toppings_match(line.selected_toppings, toppings)
    /\ (is_combo(p) => line.include_combo_items = combo)

\* The index of the matching line, 0 when there is none.  cart.items is
\* ordered newest first, so the newest matching line is the one returned.
find_matching_cart_item(cart, p, size, toppings, combo) ==
    LET hits == {i \in 1..Len(cart) : LineMatches(cart[i], p, size, toppings, combo)}
    IN IF hits = {} THEN 0 ELSE CHOOSE i \in hits : \A j \in hits : j <= i

format_included_items_for_storage(p) == IF is_combo(p) THEN included_items(p) ELSE << >>

(***************************************************************************)
(* cart/models.py                                                          *)
(***************************************************************************)
get_subtotal(line) == (line.unit_price + SumPrices(line.selected_toppings)) * line.quantity

RECURSIVE get_total(_)
get_total(cart) == IF cart = << >> THEN 0 ELSE get_subtotal(cart[1]) + get_total(Tail(cart))

(***************************************************************************)
(* The initial state: an empty database.                                   *)
(***************************************************************************)
Codes == {"SAVE", "NOPE"}
Procs == {1, 2}
Idle == [pc |-> "idle", session |-> 0, number |-> 0, code |-> "", promo |-> None,
         discount |-> 0, product |-> 0, change |-> 0, movement_type |-> "",
         before |-> 0, after |-> 0, subtotal |-> 0, order_type |-> "", fee |-> 0]
\* What a request leaves behind: its name, whether it succeeded, its message,
\* and the inputs it named (a code or status, a row, a quantity, the actor).
Result(op, ok, err, code, ref) ==
    [op |-> op, ok |-> ok, err |-> err, code |-> code, ref |-> ref,
     arg |-> 0, actor |-> "", fee |-> 0]
NoOp == Result("none", TRUE, "", "", 0)

Init ==
    /\ carts = [s \in Sessions |-> << >>]
    /\ cartExists = [s \in Sessions |-> FALSE]
    /\ orders = << >>
    /\ promos = [c \in Codes |-> None]
    /\ stock = [p \in Products |-> None]
    /\ movements = << >>
    /\ alerts = << >>
    /\ now = 0
    /\ last = NoOp
    /\ txn = [p \in Procs |-> Idle]
    /\ catalog = InitialCatalog

(***************************************************************************)
(* cart/schema.py: AddToCart.mutate                                        *)
(***************************************************************************)
AddToCartError(p, size, ids) ==
    LET formatted == format_toppings_for_storage(ids) IN
    IF p \notin catalog.products THEN "Product not found"
    ELSE IF size # NoSize /\ size \notin Sizes THEN "Size not found"
    ELSE IF size # NoSize /\ size \notin available_sizes(p) THEN "Size is not available"
    ELSE IF \E i \in 1..Len(formatted) : formatted[i].id \notin available_toppings(p)
         THEN "Topping is not available"
    ELSE ""

AddToCart(s, p, size, ids, q, combo_in) ==
    LET err == AddToCartError(p, size, ids)
        formatted == format_toppings_for_storage(ids)
        combo == combo_in /\ is_combo(p)
        unit_price == calculate_item_price(p, size, formatted)
        cart == carts[s]
        hit == find_matching_cart_item(cart, p, size, formatted, combo)
        newLine == [product |-> p, size |-> size, quantity |-> q,
                    selected_toppings |-> formatted, unit_price |-> unit_price,
                    include_combo_items |-> combo,
                    selected_included_items |->
                        IF combo THEN format_included_items_for_storage(p) ELSE << >>]
    IN
    /\ cartExists' = [cartExists EXCEPT ![s] = TRUE]
    /\ IF err # ""
       THEN /\ carts' = carts
            /\ last' = Result("addToCart", FALSE, err, "", 0)
       ELSE IF (IF hit # 0 THEN cart[hit].quantity + q ELSE q) < 0
       THEN \* the column is a PositiveIntegerField: the database refuses the row
            /\ carts' = carts
            /\ last' = Result("addToCart", FALSE, "IntegrityError", "", 0)
       ELSE IF hit # 0
       THEN /\ cart[hit].quantity + q <= MaxLineQty
            /\ carts' = [carts EXCEPT ![s][hit].quantity = @ + q,
                                      ![s][hit].unit_price = unit_price]
            /\ last' = Result("addToCart", TRUE, "merged", "", hit)
       ELSE /\ Len(cart) < MaxLines
            /\ carts' = [carts EXCEPT ![s] = Append(@, newLine)]
            /\ last' = Result("addToCart", TRUE, "created", "", Len(cart) + 1)
    /\ UNCHANGED << orders, promos, stock, movements, alerts, now, txn, catalog >>

(***************************************************************************)
(* cart/schema.py: UpdateCartItem.mutate.  Every input but the line is     *)
(* optional; an empty size id (NoSize) takes the size off the line.        *)
(***************************************************************************)
UpdateCartItemError(s, i, quantity, size_id, topping_ids) ==
    LET p == carts[s][i].product
        formatted == format_toppings_for_storage(Val(topping_ids))
    IN
    IF ~cartExists[s] THEN "Cart not found"
    ELSE IF i \notin 1..Len(carts[s]) THEN "Cart item not found"
    ELSE IF IsSet(quantity) /\ Val(quantity) <= 0 THEN "Quantity must be greater than 0"
    ELSE IF Truthy(size_id) /\ Val(size_id) \notin Sizes THEN "Size not found"
    ELSE IF Truthy(size_id) /\ Val(size_id) \notin available_sizes(p)
         THEN "Size is not available"
    ELSE IF IsSet(topping_ids)
            /\ \E k \in 1..Len(formatted) : formatted[k].id \notin available_toppings(p)
         THEN "Topping is not available"
    ELSE ""

UpdateCartItem(s, i, quantity, size_id, topping_ids, include_combo) ==
    LET err == UpdateCartItemError(s, i, quantity, size_id, topping_ids)
        line == carts[s][i]
        p == line.product
        size == IF IsSet(size_id) THEN Val(size_id) ELSE line.size
        toppings == IF IsSet(topping_ids)
                    THEN format_toppings_for_storage(Val(topping_ids))
                    ELSE line.selected_toppings
        combo == IF IsSet(include_combo)
                 THEN Val(include_combo) /\ is_combo(p)
                 ELSE line.include_combo_items
    IN
    /\ IF err # ""
       THEN /\ carts' = carts
            /\ last' = Result("updateCartItem", FALSE, err, "", i)
       ELSE /\ IsSet(quantity) => Val(quantity) <= MaxLineQty
            /\ carts' = [carts EXCEPT ![s][i] =
                  [line EXCEPT
                     !.quantity = IF IsSet(quantity) THEN Val(quantity) ELSE @,
                     !.size = size,
                     !.selected_toppings = toppings,
                     !.include_combo_items = combo,
                     !.selected_included_items =
                         IF ~IsSet(include_combo) THEN @
                         ELSE IF combo THEN format_included_items_for_storage(p)
                         ELSE << >>,
                     !.unit_price =
                         IF IsSet(size_id) \/ IsSet(topping_ids)
                         THEN calculate_item_price(p, size, toppings)
                         ELSE @]]
            /\ last' = Result("updateCartItem", TRUE, "", "", i)
    /\ UNCHANGED << cartExists, orders, promos, stock, movements, alerts, now, txn, catalog >>

RemoveFromCart(s, i) ==
    /\ IF ~cartExists[s]
       THEN /\ carts' = carts
            /\ last' = Result("removeFromCart", FALSE, "Cart not found", "", i)
       ELSE IF i \in 1..Len(carts[s])
       THEN /\ carts' = [carts EXCEPT ![s] =
                            SubSeq(@, 1, i - 1) \o SubSeq(@, i + 1, Len(@))]
            /\ last' = Result("removeFromCart", TRUE, "", "", i)
       ELSE /\ carts' = carts
            /\ last' = Result("removeFromCart", FALSE, "Cart item not found", "", i)
    /\ UNCHANGED << cartExists, orders, promos, stock, movements, alerts, now, txn, catalog >>

ClearCart(s) ==
    /\ IF ~cartExists[s]
       THEN /\ carts' = carts
            /\ last' = Result("clearCart", FALSE, "Cart not found", "", 0)
       ELSE /\ carts' = [carts EXCEPT ![s] = << >>]
            /\ last' = Result("clearCart", TRUE, "", "", 0)
    /\ UNCHANGED << cartExists, orders, promos, stock, movements, alerts, now, txn, catalog >>

(***************************************************************************)
(* products/schema.py: the catalog mutations                               *)
(***************************************************************************)
CatalogMutationError(u) ==
    IF ~is_authenticated(u) \/ ~has_product_permission(u)
    THEN "You don't have permission"
    ELSE ""

\* base_price is taken when it is truthy, included_item_ids when it is given
UpdateProduct(u, p, new_price, new_included) ==
    LET err == IF CatalogMutationError(u) # "" THEN CatalogMutationError(u)
               ELSE IF p \notin catalog.products THEN "Product not found"
               ELSE ""
    IN
    /\ IF err # ""
       THEN /\ catalog' = catalog
            /\ last' = [Result("updateProduct", FALSE, err, "", p) EXCEPT !.actor = u]
       ELSE /\ catalog' =
                  [catalog EXCEPT
                      !.base_price[p] = IF Truthy(new_price) THEN Val(new_price) ELSE @,
                      !.included_items[p] =
                          IF IsSet(new_included) THEN Val(new_included) ELSE @]
            /\ last' = [Result("updateProduct", TRUE, "", "", p) EXCEPT !.actor = u]
    /\ UNCHANGED << carts, cartExists, orders, promos, stock, movements, alerts, now, txn >>

\* DeleteProduct taking the product's order items with it as well
DeleteProductWithOrderItems(u, p) ==
    LET err == IF CatalogMutationError(u) # "" THEN CatalogMutationError(u)
               ELSE IF p \notin catalog.products THEN "Product not found"
               ELSE ""
    IN
    /\ IF err # ""
       THEN /\ UNCHANGED << catalog, carts, promos, stock, movements, alerts, orders >>
            /\ last' = [Result("deleteProduct", FALSE, err, "", p) EXCEPT !.actor = u]
       ELSE /\ catalog' = [catalog EXCEPT !.products = @ \ {p}]
            /\ carts' = [s \in Sessions |->
                            SelectSeq(carts[s], LAMBDA line : line.product # p)]
            /\ promos' = [c \in Codes |->
                            IF IsSet(promos[c])
                            THEN Some([Val(promos[c]) EXCEPT !.applicable_products = @ \ {p}])
                            ELSE None]
            /\ stock' = [stock EXCEPT ![p] = None]
            /\ movements' = SelectSeq(movements, LAMBDA m : m.product # p)
            /\ alerts' = SelectSeq(alerts, LAMBDA a : a.product # p)
            /\ orders' = [i \in 1..Len(orders) |->
                             [orders[i] EXCEPT !.items =
                                 SelectSeq(@, LAMBDA item : item.product_id # p)]]
            /\ last' = [Result("deleteProduct", TRUE, "", "", p) EXCEPT !.actor = u]
    /\ UNCHANGED << cartExists, now, txn >>

\* the rows that product.delete() takes with it: the cart lines, the stock
\* item with its movements and alerts, and the promotions' links to it
DeleteProduct(u, p) ==
    LET err == IF CatalogMutationError(u) # "" THEN CatalogMutationError(u)
               ELSE IF p \notin catalog.products THEN "Product not found"
               ELSE ""
    IN
    /\ IF err # ""
       THEN /\ UNCHANGED << catalog, carts, promos, stock, movements, alerts >>
            /\ last' = [Result("deleteProduct", FALSE, err, "", p) EXCEPT !.actor = u]
       ELSE /\ catalog' = [catalog EXCEPT !.products = @ \ {p}]
            /\ carts' = [s \in Sessions |->
                            SelectSeq(carts[s], LAMBDA line : line.product # p)]
            /\ promos' = [c \in Codes |->
                            IF IsSet(promos[c])
                            THEN Some([Val(promos[c]) EXCEPT !.applicable_products = @ \ {p}])
                            ELSE None]
            /\ stock' = [stock EXCEPT ![p] = None]
            /\ movements' = SelectSeq(movements, LAMBDA m : m.product # p)
            /\ alerts' = SelectSeq(alerts, LAMBDA a : a.product # p)
            /\ last' = [Result("deleteProduct", TRUE, "", "", p) EXCEPT !.actor = u]
    /\ UNCHANGED << cartExists, orders, now, txn >>

UpdateSize(u, size, new_modifier) ==
    LET err == IF CatalogMutationError(u) # "" THEN CatalogMutationError(u)
               ELSE IF size \notin Sizes THEN "Size not found"
               ELSE ""
    IN
    /\ IF err # ""
       THEN /\ catalog' = catalog
            /\ last' = [Result("updateSize", FALSE, err, "", size) EXCEPT !.actor = u]
       ELSE /\ catalog' = [catalog EXCEPT !.price_modifier[size] =
                               IF IsSet(new_modifier) THEN Val(new_modifier) ELSE @]
            /\ last' = [Result("updateSize", TRUE, "", "", size) EXCEPT !.actor = u]
    /\ UNCHANGED << carts, cartExists, orders, promos, stock, movements, alerts, now, txn >>

UpdateTopping(u, t, new_price) ==
    LET err == IF CatalogMutationError(u) # "" THEN CatalogMutationError(u)
               ELSE IF t \notin Toppings THEN "Topping not found"
               ELSE ""
    IN
    /\ IF err # ""
       THEN /\ catalog' = catalog
            /\ last' = [Result("updateTopping", FALSE, err, "", t) EXCEPT !.actor = u]
       ELSE /\ catalog' = [catalog EXCEPT !.topping_price[t] =
                               IF IsSet(new_price) THEN Val(new_price) ELSE @]
            /\ last' = [Result("updateTopping", TRUE, "", "", t) EXCEPT !.actor = u]
    /\ UNCHANGED << carts, cartExists, orders, promos, stock, movements, alerts, now, txn >>

(***************************************************************************)
(* team/models.py: Promotion                                               *)
(***************************************************************************)
\* Decimal('100'): a percentage is a number of hundredths, and an unsaved
\* Decimal is carried in hundredths of a cent.
Hundred == 100

is_valid(promo, t) ==
    IF ~promo.is_active THEN FALSE
    ELSE IF t < promo.valid_from \/ t > promo.valid_until THEN FALSE
    ELSE IF Truthy(promo.usage_limit) /\ promo.times_used >= Val(promo.usage_limit) THEN FALSE
    ELSE TRUE

RECURSIVE ItemsDiscountable(_, _)
\* the sum, over the order items of the promotion's products, of what the
\* promotion's flags make discountable (in cents)
ItemsDiscountable(promo, items) ==
    IF items = << >> THEN 0
    ELSE LET item == items[1] IN
         (IF item.product_id \in promo.applicable_products
          THEN (IF promo.apply_to_base_price THEN item.unit_price * item.quantity ELSE 0)
               + (IF promo.apply_to_toppings
                  THEN SumPrices(item.selected_toppings) * item.quantity ELSE 0)
          ELSE 0)
         + ItemsDiscountable(promo, Tail(items))

discountable_amount(promo, order_subtotal, order_items) ==
    IF order_items # << >> /\ ~promo.apply_to_entire_order
    THEN IF promo.applicable_products = {} THEN order_subtotal
         ELSE ItemsDiscountable(promo, order_items)
    ELSE order_subtotal

\* The discount as the exact Decimal the method returns, in hundredths of a cent.
calculate_discount(promo, t, order_subtotal, delivery_fee, order_items) ==
    LET base == discountable_amount(promo, order_subtotal, order_items)
        pct == base * promo.discount_value
    IN
    IF ~is_valid(promo, t) THEN 0
    ELSE IF Truthy(promo.minimum_order_amount)
            /\ order_subtotal < Val(promo.minimum_order_amount) THEN 0
    ELSE IF promo.discount_type = "free_delivery" THEN delivery_fee * Hundred
    ELSE IF promo.discount_type = "percentage"
         THEN IF Truthy(promo.maximum_discount)
              THEN Min(pct, Val(promo.maximum_discount) * Hundred)
              ELSE pct
    ELSE IF promo.discount_type = "fixed"
         THEN Min(promo.discount_value, base) * Hundred
    ELSE 0

\* Saving a DecimalField(decimal_places=2): the exact value is rounded to
\* whole cents, halves to the even cent.
Quantize(fine) ==
    LET q == fine \div Hundred
        r == fine % Hundred
    IN IF 2 * r < Hundred THEN q
       ELSE IF 2 * r > Hundred THEN q + 1
       ELSE IF q % 2 = 0 THEN q ELSE q + 1

(***************************************************************************)
(* team/schema.py: CreatePromotion.mutate                                  *)
(***************************************************************************)
DiscountTypes == {"percentage", "fixed", "free_delivery"}

CreatePromotion(u, code, input) ==
    /\ IF ~is_authenticated(u) \/ ~has_promotion_permission(u)
       THEN /\ promos' = promos
            /\ last' = Result("createPromotion", FALSE, "permission", code, 0)
       ELSE IF IsSet(promos[code])
       THEN /\ promos' = promos
            /\ last' = Result("createPromotion", FALSE, "code exists", code, 0)
       ELSE IF input.discount_type \notin DiscountTypes
       THEN /\ promos' = promos
            /\ last' = Result("createPromotion", FALSE, "Invalid discount type", code, 0)
       ELSE /\ promos' = [promos EXCEPT ![code] = Some([input EXCEPT !.times_used = 0])]
            /\ last' = Result("createPromotion", TRUE, "", code, 0)
    /\ UNCHANGED << carts, cartExists, orders, stock, movements, alerts, now, txn, catalog >>

\* setattr for every input field that is not None; times_used is no input
UpdatePromotion(u, code, input) ==
    LET old == Val(promos[code])
        Given(field) == IF IsSet(input[field]) THEN input[field] ELSE old[field]
    IN
    /\ IF ~is_authenticated(u) \/ ~has_promotion_permission(u)
       THEN /\ promos' = promos
            /\ last' = Result("updatePromotion", FALSE, "permission", code, 0)
       ELSE IF ~IsSet(promos[code])
       THEN /\ promos' = promos
            /\ last' = Result("updatePromotion", FALSE, "Promotion not found", code, 0)
       ELSE /\ promos' = [promos EXCEPT ![code] =
                             Some([input EXCEPT
                                      !.times_used = old.times_used,
                                      !.minimum_order_amount = Given("minimum_order_amount"),
                                      !.maximum_discount = Given("maximum_discount"),
                                      !.usage_limit = Given("usage_limit")])]
            /\ last' = Result("updatePromotion", TRUE, "", code, 0)
    /\ UNCHANGED << carts, cartExists, orders, stock, movements, alerts, now, txn, catalog >>

DeletePromotion(u, code) ==
    /\ IF ~is_authenticated(u) \/ ~has_promotion_permission(u)
       THEN /\ promos' = promos
            /\ last' = Result("deletePromotion", FALSE, "permission", code, 0)
       ELSE IF ~IsSet(promos[code])
       THEN /\ promos' = promos
            /\ last' = Result("deletePromotion", FALSE, "Promotion not found", code, 0)
       ELSE /\ promos' = [promos EXCEPT ![code] = None]
            /\ last' = Result("deletePromotion", TRUE, "", code, 0)
    /\ UNCHANGED << carts, cartExists, orders, stock, movements, alerts, now, txn, catalog >>

Tick ==
    /\ now < MaxTime
    /\ now' = now + 1
    /\ last' = Result("tick", TRUE, "", "", 0)
    /\ UNCHANGED << carts, cartExists, orders, promos, stock, movements, alerts, txn, catalog >>

(***************************************************************************)
(* team/schema.py: the validatePromotion query                             *)
(***************************************************************************)
\* The message of the query for a promotion that is found.
ValidationMessage(promo, t, subtotal) ==
    IF ~is_valid(promo, t)
    THEN IF t < promo.valid_from THEN "This promotion hasn't started yet"
         ELSE IF t > promo.valid_until THEN "This promotion has expired"
         ELSE IF Truthy(promo.usage_limit) /\ promo.times_used >= Val(promo.usage_limit)
              THEN "This promotion has reached its usage limit"
         ELSE "This promotion is not active"
    ELSE IF Truthy(promo.minimum_order_amount) /\ subtotal < Val(promo.minimum_order_amount)
         THEN "Minimum order amount is"
    ELSE "Code applied"

\* ValidatePromotion counting the query as a use of the code
ValidatePromotionCounting(code, subtotal, delivery_fee) ==
    /\ last' = Result("validatePromotion", IsSet(promos[code]), "", code, subtotal)
    /\ promos' = [promos EXCEPT ![code] =
                     IF IsSet(@) THEN Some([Val(@) EXCEPT !.times_used = @ + 1]) ELSE @]
    /\ UNCHANGED << carts, cartExists, orders, stock, movements, alerts, now, txn, catalog >>

\* The answer is left in last: ok is valid, err is the message, arg is the
\* discount amount, ref the subtotal and fee the delivery fee that was used.
ValidatePromotion(code, subtotal, delivery_fee) ==
    LET promo == Val(promos[code])
        delivery == IF Truthy(delivery_fee) THEN Val(delivery_fee) ELSE 0
        message == IF ~IsSet(promos[code]) THEN "Invalid promotion code"
                   ELSE ValidationMessage(promo, now, subtotal)
        valid == message = "Code applied"
        discount_amount == IF valid
                           THEN calculate_discount(promo, now, subtotal, delivery, << >>)
                           ELSE 0
    IN
    /\ last' = [Result("validatePromotion", valid, message, code, subtotal)
                   EXCEPT !.arg = discount_amount, !.fee = delivery]
    /\ UNCHANGED << carts, cartExists, orders, promos, stock, movements, alerts, now, txn, catalog >>

(***************************************************************************)
(* orders/utils.py and orders/schema.py: checkout                          *)
(***************************************************************************)
\* str.lower() on the names a client sends
lower(st) ==
    CASE st = "DELIVERED" -> "delivered"
      [] st = "Pending" -> "pending"
      [] st = "Delivery" -> "delivery"
      [] st = "PICKUP" -> "pickup"
      [] OTHER -> st

OrderTypes == {"delivery", "pickup"}

\* An order number no stored order carries.
generate_order_number(os) ==
    IF os = << >> THEN 1
    ELSE 1 + (CHOOSE n \in {os[i].number : i \in 1..Len(os)} :
                 \A i \in 1..Len(os) : os[i].number <= n)

\* OrderItemOf with the line's toppings left out of its subtotal
OrderItemOfUnitPrice(line) ==
    [product_id |-> line.product,
     is_combo |-> is_combo(line.product),
     included_items |-> included_items(line.product),
     size_id |-> line.size,
     selected_toppings |-> line.selected_toppings,
     unit_price |-> line.unit_price,
     quantity |-> line.quantity,
     subtotal |-> line.unit_price * line.quantity]

\* The OrderItem snapshot of one cart line.
OrderItemOf(line) ==
    [product_id |-> line.product,
     is_combo |-> is_combo(line.product),
     included_items |-> included_items(line.product),
     size_id |-> line.size,
     selected_toppings |-> line.selected_toppings,
     unit_price |-> line.unit_price,
     quantity |-> line.quantity,
     subtotal |-> (line.unit_price + SumPrices(line.selected_toppings)) * line.quantity]

\* cart.items.all() yields the newest line first.
OrderItemsOf(cart) == [i \in 1..Len(cart) |-> OrderItemOf(Reverse(cart)[i])]

checkout_fee(order_type, fee) ==
    IF order_type = "pickup" THEN 0
    ELSE IF Truthy(fee) THEN Val(fee) ELSE 0

\* Why the checkout is refused before anything is written ("" when it is not).
CreateOrderError(s, order_type, delivery_address) ==
    IF ~cartExists[s] THEN "Cart is empty"
    ELSE IF carts[s] = << >> THEN "Cart is empty"
    ELSE IF lower(order_type) \notin OrderTypes THEN "Order type must be 'delivery' or 'pickup'"
    ELSE IF lower(order_type) = "delivery" /\ ~HasText(delivery_address)
         THEN "Delivery address is required"
    ELSE ""

\* Why the promotion code makes the checkout delete its order ("" when it
\* does not, or when no code is given).
PromotionError(code, subtotal) ==
    IF code = "" THEN ""
    ELSE IF ~IsSet(promos[code]) THEN "Invalid promotion code"
    ELSE IF ~is_valid(Val(promos[code]), now) THEN "This promotion code is no longer valid"
    ELSE IF Truthy(Val(promos[code]).minimum_order_amount)
            /\ subtotal < Val(Val(promos[code]).minimum_order_amount)
         THEN "Minimum order amount for this code is"
    ELSE ""

NewOrder(number, source, s, order_type, status, subtotal, fee, code, discount, items) ==
    [number |-> number, source |-> source, cart_session_key |-> s,
     order_type |-> order_type, status |-> status,
     subtotal |-> subtotal, delivery_fee |-> fee,
     discount_amount |-> Quantize(discount), discount_code |-> code,
     total |-> Quantize((subtotal + fee) * Hundred - discount),
     completed_at |-> None, items |-> items]

\* The handler, storing at most cap orders.
CreateOrderWithin(cap, s, order_type_in, delivery_address, fee_in, code) ==
    LET err == CreateOrderError(s, order_type_in, delivery_address)
        order_type == lower(order_type_in)
        cart == carts[s]
        subtotal == get_total(cart)
        delivery_fee == checkout_fee(order_type, fee_in)
        number == generate_order_number(orders)
        items == OrderItemsOf(cart)
        perr == PromotionError(code, subtotal)
        promo == Val(promos[code])
        discount == IF code = "" THEN 0
                    ELSE calculate_discount(promo, now, subtotal, delivery_fee, items)
    IN
    /\ IF err # ""
       THEN /\ last' = Result("createOrder", FALSE, err, code, 0)
            /\ UNCHANGED << carts, orders, promos >>
       ELSE IF perr # ""
       THEN \* the order and its items were created and are deleted again
            /\ last' = Result("createOrder", FALSE, perr, code, 0)
            /\ UNCHANGED << carts, orders, promos >>
       ELSE /\ Len(orders) < cap
            /\ orders' = Append(orders,
                   NewOrder(number, "cart", s, order_type, "pending", subtotal,
                            delivery_fee, code, discount, items))
            /\ promos' = IF code = "" THEN promos
                         ELSE [promos EXCEPT ![code] =
                                  Some([promo EXCEPT !.times_used = @ + 1])]
            /\ carts' = [carts EXCEPT ![s] = << >>]
            /\ last' = [Result("createOrder", TRUE, "", code, number)
                           EXCEPT !.arg = discount, !.fee = delivery_fee]
    /\ UNCHANGED << cartExists, stock, movements, alerts, now, txn, catalog >>

CreateOrder(s, order_type_in, delivery_address, fee_in, code) ==
    CreateOrderWithin(MaxOrders, s, order_type_in, delivery_address, fee_in, code)

(***************************************************************************)
(* orders/schema.py: UpdateOrderStatus.mutate                              *)
(***************************************************************************)
Statuses == {"pending", "confirmed", "preparing", "ready",
             "delivered", "picked_up", "cancelled"}
Completed == {"delivered", "picked_up"}

\* completed_at_after with the stamp renewed on every completed status
completed_at_restamped(order, new_status) ==
    IF new_status \in Completed THEN Some(now) ELSE None

completed_at_after(order, new_status) ==
    IF new_status \in Completed
    THEN IF ~IsSet(order.completed_at) THEN Some(now) ELSE order.completed_at
    ELSE None

\* UpdateOrderStatusError with a guard that refuses to leave a terminal status
UpdateOrderStatusErrorGuarded(u, i, new_status) ==
    IF ~is_authenticated(u) THEN "Authentication required"
    ELSE IF ~has_order_permission(u) THEN "permission"
    ELSE IF i \notin 1..Len(orders) THEN "Order not found"
    ELSE IF lower(new_status) \notin Statuses THEN "Invalid status"
    ELSE IF orders[i].status \in Completed \cup {"cancelled"} THEN "Invalid transition"
    ELSE ""

UpdateOrderStatusError(u, i, new_status) ==
    IF ~is_authenticated(u) THEN "Authentication required"
    ELSE IF ~has_order_permission(u) THEN "permission"
    ELSE IF i \notin 1..Len(orders) THEN "Order not found"
    ELSE IF lower(new_status) \notin Statuses THEN "Invalid status"
    ELSE ""

UpdateOrderStatus(u, i, new_status) ==
    LET err == UpdateOrderStatusError(u, i, new_status) IN
    /\ IF err # ""
       THEN /\ orders' = orders
            /\ last' = [Result("updateOrderStatus", FALSE, err, new_status, i)
                           EXCEPT !.actor = u]
       ELSE /\ orders' = [orders EXCEPT
                             ![i].status = lower(new_status),
                             ![i].completed_at =
                                 completed_at_after(orders[i], lower(new_status))]
            /\ last' = [Result("updateOrderStatus", TRUE, orders[i].status, new_status, i)
                           EXCEPT !.actor = u]
    /\ UNCHANGED << carts, cartExists, promos, stock, movements, alerts, now, txn, catalog >>

(***************************************************************************)
(* inventory/utils.py: the stock ledger.  The ledger operations are        *)
(* functions of the database state db = [stock, movements, alerts].        *)
(***************************************************************************)
MovementTypes == {"sale", "adjustment", "receipt", "return", "damaged", "transfer"}

DB == [stock |-> stock, movements |-> movements, alerts |-> alerts]

get_or_create_stock_item(db, p) ==
    IF ~track_inventory(p) \/ IsSet(db.stock[p]) THEN db
    ELSE [db EXCEPT !.stock[p] = Some([quantity |-> 0, reorder_level |-> reorder_level(p)])]

is_low_stock(item) == item.quantity <= item.reorder_level

HasActiveAlert(as, p) == \E i \in 1..Len(as) : as[i].product = p /\ as[i].status = "active"

\* check_low_stock without the look-up of an existing active alert
check_low_stock_unchecked(db, p) ==
    LET item == Val(db.stock[p]) IN
    IF is_low_stock(item)
    THEN [db EXCEPT !.alerts = Append(@, [product |-> p, status |-> "active"])]
    ELSE [db EXCEPT !.alerts =
             [i \in 1..Len(@) |->
                 IF @[i].product = p /\ @[i].status = "active"
                 THEN [@[i] EXCEPT !.status = "resolved"] ELSE @[i]]]

check_low_stock(db, p) ==
    LET item == Val(db.stock[p]) IN
    IF is_low_stock(item)
    THEN IF ~HasActiveAlert(db.alerts, p)
         THEN [db EXCEPT !.alerts = Append(@, [product |-> p, status |-> "active"])]
         ELSE db
    ELSE [db EXCEPT !.alerts =
             [i \in 1..Len(@) |->
                 IF @[i].product = p /\ @[i].status = "active"
                 THEN [@[i] EXCEPT !.status = "resolved"] ELSE @[i]]]

\* adjust_stock without the floor at zero
adjust_stock_unclamped(db, p, quantity_change, movement_type, reference) ==
    IF ~track_inventory(p) THEN db
    ELSE LET db1 == get_or_create_stock_item(db, p)
             quantity_before == Val(db1.stock[p]).quantity
             quantity_after == quantity_before + quantity_change
             movement == [product |-> p, movement_type |-> movement_type,
                          quantity_change |-> quantity_change,
                          quantity_before |-> quantity_before,
                          quantity_after |-> quantity_after,
                          reference |-> reference]
             db2 == [db1 EXCEPT !.movements = Append(@, movement),
                                !.stock[p] = Some([Val(@) EXCEPT !.quantity = quantity_after])]
         IN check_low_stock(db2, p)

adjust_stock(db, p, quantity_change, movement_type, reference) ==
    IF ~track_inventory(p) THEN db
    ELSE LET db1 == get_or_create_stock_item(db, p)
             quantity_before == Val(db1.stock[p]).quantity
             quantity_after == Max(0, quantity_before + quantity_change)
             movement == [product |-> p, movement_type |-> movement_type,
                          quantity_change |-> quantity_change,
                          quantity_before |-> quantity_before,
                          quantity_after |-> quantity_after,
                          reference |-> reference]
             db2 == [db1 EXCEPT !.movements = Append(@, movement),
                                !.stock[p] = Some([Val(@) EXCEPT !.quantity = quantity_after])]
         IN check_low_stock(db2, p)

sell_stock(db, p, quantity, order_number) == adjust_stock(db, p, -quantity, "sale", order_number)
receive_stock(db, p, quantity) == adjust_stock(db, p, quantity, "receipt", 0)
return_stock(db, p, quantity, reference) == adjust_stock(db, p, quantity, "return", reference)

\* The model's caps on the ledger: the run stops growing past them.
WithinLedgerBounds(db) ==
    /\ Len(db.movements) <= MaxMovements
    /\ \A p \in Products : IsSet(db.stock[p]) => Val(db.stock[p]).quantity <= MaxStock

SetDB(db) ==
    /\ WithinLedgerBounds(db)
    /\ stock' = db.stock
    /\ movements' = db.movements
    /\ alerts' = db.alerts

(***************************************************************************)
(* inventory/schema.py: the inventory queries and mutations                *)
(***************************************************************************)
StockMutationError(u, p) ==
    IF ~is_authenticated(u) \/ ~is_staff_or_superuser(u) THEN "Permission denied"
    ELSE IF p \notin catalog.products THEN "Product not found"
    ELSE IF ~track_inventory(p) THEN "This product does not track inventory"
    ELSE ""

AdjustStock(u, p, quantity_change, movement_type, reference) ==
    LET err == IF StockMutationError(u, p) # "" THEN StockMutationError(u, p)
               ELSE IF movement_type \notin MovementTypes THEN "Invalid movement type"
               ELSE ""
    IN
    /\ IF err # ""
       THEN /\ UNCHANGED << stock, movements, alerts >>
            /\ last' = [Result("adjustStock", FALSE, err, movement_type, p) EXCEPT !.arg = quantity_change]
       ELSE /\ SetDB(adjust_stock(DB, p, quantity_change, movement_type, reference))
            /\ last' = [Result("adjustStock", TRUE, "", movement_type, p) EXCEPT !.arg = quantity_change]
    /\ UNCHANGED << carts, cartExists, orders, promos, now, txn, catalog >>

ReceiveStock(u, p, quantity) ==
    LET err == IF StockMutationError(u, p) # "" THEN StockMutationError(u, p)
               ELSE IF quantity <= 0 THEN "Quantity must be greater than 0"
               ELSE ""
    IN
    /\ IF err # ""
       THEN /\ UNCHANGED << stock, movements, alerts >>
            /\ last' = [Result("receiveStock", FALSE, err, "receipt", p) EXCEPT !.arg = quantity]
       ELSE /\ SetDB(receive_stock(DB, p, quantity))
            /\ last' = [Result("receiveStock", TRUE, "", "receipt", p) EXCEPT !.arg = quantity]
    /\ UNCHANGED << carts, cartExists, orders, promos, now, txn, catalog >>

ReturnStock(u, p, quantity, reference) ==
    LET err == IF StockMutationError(u, p) # "" THEN StockMutationError(u, p)
               ELSE IF quantity <= 0 THEN "Quantity must be greater than 0"
               ELSE ""
    IN
    /\ IF err # ""
       THEN /\ UNCHANGED << stock, movements, alerts >>
            /\ last' = [Result("returnStock", FALSE, err, "return", p) EXCEPT !.arg = quantity]
       ELSE /\ SetDB(return_stock(DB, p, quantity, reference))
            /\ last' = [Result("returnStock", TRUE, "", "return", p) EXCEPT !.arg = quantity]
    /\ UNCHANGED << carts, cartExists, orders, promos, now, txn, catalog >>

AcknowledgeStockAlert(u, i) ==
    LET err == IF ~is_authenticated(u) \/ ~is_staff_or_superuser(u) THEN "Permission denied"
               ELSE IF i \notin 1..Len(alerts) THEN "Stock alert not found"
               ELSE IF alerts[i].status # "active" THEN "Only active alerts can be acknowledged"
               ELSE ""
    IN
    /\ IF err # ""
       THEN /\ alerts' = alerts
            /\ last' = Result("acknowledgeStockAlert", FALSE, err, "", i)
       ELSE /\ alerts' = [alerts EXCEPT ![i].status = "acknowledged"]
            /\ last' = Result("acknowledgeStockAlert", TRUE, "", "", i)
    /\ UNCHANGED << carts, cartExists, orders, promos, stock, movements, now, txn, catalog >>

\* resolve_stock_item_by_product: the query creates the StockItem it misses.
StockItemByProduct(p) ==
    /\ p \in catalog.products
    /\ SetDB(get_or_create_stock_item(DB, p))
    /\ last' = Result("stockItemByProduct", track_inventory(p), "", "", p)
    /\ UNCHANGED << carts, cartExists, orders, promos, now, txn, catalog >>

(***************************************************************************)
(* products/models.py and inventory/pos_schema.py: the POS order entry     *)
(***************************************************************************)
get_price_for_size(p, size) ==
    IF size \in available_sizes(p)
    THEN get_current_base_price(p) + price_modifier(size)
    ELSE get_current_base_price(p)

\* One POS input item, priced: its toppings are the dicts the terminal sent.
POSItemOf(item) ==
    LET unit_price == IF item.sizeId # NoSize
                      THEN get_price_for_size(item.productId, item.sizeId)
                      ELSE get_current_base_price(item.productId)
    IN [product_id |-> item.productId,
        is_combo |-> is_combo(item.productId),
        included_items |-> included_items(item.productId),
        size_id |-> item.sizeId,
        selected_toppings |-> item.toppings,
        unit_price |-> unit_price,
        quantity |-> item.quantity,
        subtotal |-> (unit_price + SumPrices(item.toppings)) * item.quantity]

POSItemsOf(items) == [i \in 1..Len(items) |-> POSItemOf(items[i])]

CreatePOSOrderError(u, order_type, delivery_address, items) ==
    IF ~is_authenticated(u) \/ ~is_staff_or_superuser(u) THEN "Permission denied"
    ELSE IF lower(order_type) \notin OrderTypes THEN "Order type must be 'delivery' or 'pickup'"
    ELSE IF lower(order_type) = "delivery" /\ ~HasText(delivery_address)
         THEN "Delivery address is required"
    ELSE IF items = << >> THEN "Order must have at least one item"
    ELSE IF \E i \in 1..Len(items) : items[i].productId \notin catalog.products THEN "Product not found"
    ELSE IF \E i \in 1..Len(items) : items[i].quantity <= 0
         THEN "Item quantity must be greater than 0"
    ELSE IF \E i \in 1..Len(items) : items[i].sizeId # NoSize /\ items[i].sizeId \notin Sizes
         THEN "Size not found"
    ELSE ""

RECURSIVE SellItems(_, _, _, _)
\* the loop over the order's items: sell_stock for each product that tracks.
\* raised[i] says that sell_stock raised for item i: its transaction is
\* rolled back, the error is logged and the loop goes on.
SellItems(db, items, order_number, raised) ==
    IF items = << >> THEN db
    ELSE SellItems(
            IF track_inventory(items[1].product_id) /\ ~raised[1]
            THEN sell_stock(db, items[1].product_id, items[1].quantity, order_number)
            ELSE db,
            Tail(items), order_number, Tail(raised))

\* CreatePOSOrderWith rolling the order back when a deduction raises
CreatePOSOrderRollingBack(raised, u, order_type_in, delivery_address, items) ==
    LET err == CreatePOSOrderError(u, order_type_in, delivery_address, items)
        order_type == lower(order_type_in)
        order_items == POSItemsOf(items)
        subtotal == SumSubtotals(order_items)
        number == generate_order_number(orders)
    IN
    /\ IF err # ""
       THEN /\ UNCHANGED << orders, stock, movements, alerts >>
            /\ last' = Result("createPosOrder", FALSE, err, "", 0)
       ELSE IF \E i \in 1..Len(raised) : raised[i]
       THEN /\ UNCHANGED << orders, stock, movements, alerts >>
            /\ last' = Result("createPosOrder", FALSE, "stock deduction failed", "", 0)
       ELSE /\ Len(orders) < MaxOrders
            /\ orders' = Append(orders,
                   NewOrder(number, "pos", 0, order_type, "confirmed", subtotal,
                            0, "", 0, order_items))
            /\ SetDB(SellItems(DB, order_items, number, raised))
            /\ last' = Result("createPosOrder", TRUE, "", "", number)
    /\ UNCHANGED << carts, cartExists, promos, now, txn, catalog >>

\* The handler, with the items whose stock deduction raises.
CreatePOSOrderWith(raised, u, order_type_in, delivery_address, items) ==
    LET err == CreatePOSOrderError(u, order_type_in, delivery_address, items)
        order_type == lower(order_type_in)
        order_items == POSItemsOf(items)
        subtotal == SumSubtotals(order_items)
        number == generate_order_number(orders)
    IN
    /\ IF err # ""
       THEN /\ UNCHANGED << orders, stock, movements, alerts >>
            /\ last' = Result("createPosOrder", FALSE, err, "", 0)
       ELSE /\ Len(orders) < MaxOrders
            /\ orders' = Append(orders,
                   NewOrder(number, "pos", 0, order_type, "confirmed", subtotal,
                            0, "", 0, order_items))
            /\ SetDB(SellItems(DB, order_items, number, raised))
            /\ last' = Result("createPosOrder", TRUE, "", "", number)
    /\ UNCHANGED << carts, cartExists, promos, now, txn, catalog >>

CreatePOSOrder(u, order_type_in, delivery_address, items) ==
    CreatePOSOrderWith([i \in 1..Len(items) |-> FALSE], u, order_type_in,
                       delivery_address, items)

(***************************************************************************)
(* orders/schema.py: CreateOrder.mutate, one database statement at a time. *)
(* The handler opens no transaction, so every statement is committed and   *)
(* visible to the other request as soon as it has run.                     *)
(***************************************************************************)
OrderIndex(number) == CHOOSE i \in 1..Len(orders) : orders[i].number = number

RemoveOrder(os, number) == SelectSeq(os, LAMBDA o : o.number # number)

\* the checks, then Order.objects.create and the OrderItem.objects.create loop
co_create_order(pr, s, order_type_in, delivery_address, fee_in, code) ==
    LET err == CreateOrderError(s, order_type_in, delivery_address)
        order_type == lower(order_type_in)
        subtotal == get_total(carts[s])
        delivery_fee == checkout_fee(order_type, fee_in)
        number == generate_order_number(orders)
    IN
    /\ txn[pr].pc = "idle"
    /\ IF err # ""
       THEN /\ last' = Result("createOrder", FALSE, err, code, 0)
            /\ UNCHANGED << orders, txn >>
       ELSE /\ orders' = Append(orders,
                   NewOrder(number, "cart", s, order_type, "pending", subtotal,
                            delivery_fee, "", 0, OrderItemsOf(carts[s])))
            /\ txn' = [txn EXCEPT ![pr] =
                          [Idle EXCEPT !.pc = IF code = "" THEN "counted" ELSE "created",
                                       !.session = s, !.number = number, !.code = code]]
            /\ last' = last
    /\ UNCHANGED << carts, cartExists, promos, stock, movements, alerts, now, catalog >>

\* Promotion.objects.get and, on the instance it returned, is_valid, the
\* minimum order test, calculate_discount and times_used += 1
co_read_promotion(pr) ==
    LET code == txn[pr].code
        order == orders[OrderIndex(txn[pr].number)]
        promo == Val(promos[code])
    IN
    /\ txn[pr].pc = "created"
    /\ txn' = [txn EXCEPT ![pr] =
          IF PromotionError(code, order.subtotal) # ""
          THEN [@ EXCEPT !.pc = "invalid"]
          ELSE [@ EXCEPT !.pc = "validated",
                         !.promo = Some([promo EXCEPT !.times_used = @ + 1]),
                         !.discount = calculate_discount(promo, now, order.subtotal,
                                                         order.delivery_fee, order.items)]]
    /\ UNCHANGED << carts, cartExists, orders, promos, stock, movements, alerts, now, last, catalog >>

\* order.delete() and the GraphQLError
co_delete_order(pr) ==
    LET order == orders[OrderIndex(txn[pr].number)] IN
    /\ txn[pr].pc = "invalid"
    /\ orders' = RemoveOrder(orders, txn[pr].number)
    /\ last' = Result("createOrder", FALSE, PromotionError(txn[pr].code, order.subtotal),
                      txn[pr].code, 0)
    /\ txn' = [txn EXCEPT ![pr] = [@ EXCEPT !.pc = "failed"]]
    /\ UNCHANGED << carts, cartExists, promos, stock, movements, alerts, now, catalog >>

\* promotion.save(): every field of the instance read earlier is written back
co_save_promotion(pr) ==
    /\ txn[pr].pc = "validated"
    /\ promos' = [promos EXCEPT ![txn[pr].code] = txn[pr].promo]
    /\ txn' = [txn EXCEPT ![pr] = [@ EXCEPT !.pc = "counted"]]
    /\ UNCHANGED << carts, cartExists, orders, stock, movements, alerts, now, last, catalog >>

\* order.save() with the discount, the code and the total
co_save_order(pr) ==
    LET i == OrderIndex(txn[pr].number)
        order == orders[i]
    IN
    /\ txn[pr].pc = "counted"
    /\ orders' = [orders EXCEPT ![i] =
          [order EXCEPT
              !.discount_amount = Quantize(txn[pr].discount),
              !.discount_code = txn[pr].code,
              !.total = Quantize((order.subtotal + order.delivery_fee) * Hundred
                                 - txn[pr].discount)]]
    /\ txn' = [txn EXCEPT ![pr] = [@ EXCEPT !.pc = "saved"]]
    /\ UNCHANGED << carts, cartExists, promos, stock, movements, alerts, now, last, catalog >>

\* cart.items.all().delete() and the response
co_clear_cart(pr) ==
    /\ txn[pr].pc = "saved"
    /\ carts' = [carts EXCEPT ![txn[pr].session] = << >>]
    /\ last' = Result("createOrder", TRUE, "", txn[pr].code, txn[pr].number)
    /\ txn' = [txn EXCEPT ![pr] = [@ EXCEPT !.pc = "done"]]
    /\ UNCHANGED << cartExists, orders, promos, stock, movements, alerts, now, catalog >>

\* The first half of co_create_order, for a cart that changes under the
\* handler: the checks and cart.get_total(), which reads the lines once
co_read_total(pr, s, order_type_in, delivery_address, fee_in, code) ==
    LET err == CreateOrderError(s, order_type_in, delivery_address)
        order_type == lower(order_type_in)
    IN
    /\ txn[pr].pc = "idle"
    /\ IF err # ""
       THEN /\ last' = Result("createOrder", FALSE, err, code, 0)
            /\ UNCHANGED txn
       ELSE /\ txn' = [txn EXCEPT ![pr] =
                          [Idle EXCEPT !.pc = "totalled", !.session = s, !.code = code,
                                       !.subtotal = get_total(carts[s]),
                                       !.order_type = order_type,
                                       !.fee = checkout_fee(order_type, fee_in)]]
            /\ last' = last
    /\ UNCHANGED << carts, cartExists, orders, promos, stock, movements, alerts, now, catalog >>

\* The second half: Order.objects.create with the subtotal read before, and
\* the OrderItem loop, which evaluates the cart_items queryset only now
co_create_order_items(pr) ==
    LET s == txn[pr].session
        number == generate_order_number(orders)
    IN
    /\ txn[pr].pc = "totalled"
    /\ orders' = Append(orders,
           NewOrder(number, "cart", s, txn[pr].order_type, "pending",
                    txn[pr].subtotal, txn[pr].fee, "", 0, OrderItemsOf(carts[s])))
    /\ txn' = [txn EXCEPT ![pr] =
                  [@ EXCEPT !.pc = IF txn[pr].code = "" THEN "counted" ELSE "created",
                            !.number = number]]
    /\ UNCHANGED << carts, cartExists, promos, stock, movements, alerts, now, last, catalog >>

(***************************************************************************)
(* inventory/utils.py: adjust_stock, one database statement at a time.     *)
(* transaction.atomic() takes no row lock: the StockItem is read with a    *)
(* plain SELECT, and the UPDATE of save() waits only for a writer that has *)
(* not committed yet, so save, check_low_stock and the commit are one step.*)
(***************************************************************************)
\* get_or_create_stock_item and the arithmetic on the instance it returned
adjust_stock_read(pr, p, quantity_change, movement_type) ==
    LET db1 == get_or_create_stock_item(DB, p)
        quantity_before == Val(db1.stock[p]).quantity
    IN
    /\ txn[pr].pc = "idle"
    /\ track_inventory(p)
    /\ SetDB(db1)
    /\ txn' = [txn EXCEPT ![pr] =
                  [Idle EXCEPT !.pc = "read", !.product = p,
                               !.change = quantity_change,
                               !.movement_type = movement_type,
                               !.before = quantity_before,
                               !.after = Max(0, quantity_before + quantity_change)]]
    /\ UNCHANGED << carts, cartExists, orders, promos, now, last, catalog >>

\* StockMovement.objects.create
adjust_stock_create_movement(pr) ==
    /\ txn[pr].pc = "read"
    /\ Len(movements) < MaxMovements
    /\ movements' = Append(movements,
          [product |-> txn[pr].product, movement_type |-> txn[pr].movement_type,
           quantity_change |-> txn[pr].change,
           quantity_before |-> txn[pr].before,
           quantity_after |-> txn[pr].after,
           reference |-> 0])
    /\ txn' = [txn EXCEPT ![pr] = [@ EXCEPT !.pc = "moved", !.number = Len(movements) + 1]]
    /\ UNCHANGED << carts, cartExists, orders, promos, stock, alerts, now, last, catalog >>

\* stock_item.save(), check_low_stock and the commit
adjust_stock_save(pr) ==
    LET p == txn[pr].product
        db2 == [DB EXCEPT !.stock[p] = Some([Val(@) EXCEPT !.quantity = txn[pr].after])]
    IN
    /\ txn[pr].pc = "moved"
    /\ SetDB(check_low_stock(db2, p))
    /\ last' = [Result("adjustStock", TRUE, "", txn[pr].movement_type, p)
                   EXCEPT !.arg = txn[pr].change]
    /\ txn' = [txn EXCEPT ![pr] = [@ EXCEPT !.pc = "done"]]
    /\ UNCHANGED << carts, cartExists, orders, promos, now, catalog >>

\* the response has gone out: the worker takes the next request
request_finished(pr) ==
    /\ txn[pr].pc \in {"done", "failed"}
    /\ txn' = [txn EXCEPT ![pr] = Idle]
    /\ UNCHANGED << carts, cartExists, orders, promos, stock, movements, alerts, now, last, catalog >>

(***************************************************************************)
(* The storefront: one session fills its cart and checks out.              *)
(***************************************************************************)
ToppingInputs == {<< >>, << 1 >>}
FeeInputs == {None, Some(5)}
Shopper == 1

Next ==
    \/ \E p \in Products, size \in {NoSize, 1}, ids \in ToppingInputs, q \in 1..MaxQty :
          AddToCart(Shopper, p, size, ids, q, FALSE)
    \/ \E i \in 1..MaxLines : RemoveFromCart(Shopper, i)
    \/ ClearCart(Shopper)
    \/ CreateOrder(Shopper, "pickup", None, None, "")

Spec == Init /\ [][Next]_vars

(***************************************************************************)
(* Checkout with a promotion whose pricing (kind, value, cap, scoping)     *)
(* varies; the cart holds one line.                                        *)
(***************************************************************************)
PromoInputsPricing ==
    [discount_type : DiscountTypes, discount_value : {-5, 10, 200},
     minimum_order_amount : {None}, maximum_discount : {None, Some(5)},
     usage_limit : {None}, times_used : {0},
     is_active : {TRUE}, valid_from : {0}, valid_until : {MaxTime},
     apply_to_entire_order : BOOLEAN, apply_to_base_price : {TRUE},
     apply_to_toppings : {FALSE}, applicable_products : {{1}}]

NextPricing ==
    \/ \E p \in Products, ids \in ToppingInputs, q \in 1..MaxQty :
          carts[Shopper] = << >> /\ AddToCart(Shopper, p, NoSize, ids, q, FALSE)
    \/ \E input \in PromoInputsPricing : CreatePromotion("admin", "SAVE", input)
    \/ \E order_type \in OrderTypes, fee \in FeeInputs, code \in {"", "SAVE"} :
          CreateOrder(Shopper, order_type, Some("12 High St"), fee, code)

SpecPricing == Init /\ [][NextPricing]_vars

(***************************************************************************)
(* Filling a cart: the same and different configurations are added again   *)
(* and again, with the topping ids in either order, while a sale starts.   *)
(***************************************************************************)
ToppingInputsMerge == {<< >>, << 1, 2 >>, << 2, 1 >>}

\* Product 1 with both toppings in either order, with and without a size;
\* product 2, the combo, with and without its included items.
MergeInputs ==
    {r \in [p : Products, size : {NoSize, 1}, ids : ToppingInputsMerge,
            q : {1}, combo : BOOLEAN] :
        \/ r.p = 1 /\ r.ids # << >> /\ ~r.combo
        \/ r.p = 2 /\ r.ids = << >> /\ r.size = NoSize}

NextMerge ==
    \/ \E r \in MergeInputs : AddToCart(Shopper, r.p, r.size, r.ids, r.q, r.combo)
    \/ \E i \in 1..MaxLines : RemoveFromCart(Shopper, i)
    \/ Tick

SpecMerge == Init /\ [][NextMerge]_vars

(***************************************************************************)
(* The discount a promotion grants, as the validatePromotion query and the *)
(* checkout compute it, for promotions of every kind, value, cap and scope.*)
(***************************************************************************)
PromoInputsDiscount ==
    [discount_type : DiscountTypes, discount_value : {-5, 10, 200},
     minimum_order_amount : {None}, maximum_discount : {None, Some(0), Some(1)},
     usage_limit : {None}, times_used : {0},
     is_active : {TRUE}, valid_from : {0}, valid_until : {MaxTime},
     apply_to_entire_order : BOOLEAN, apply_to_base_price : {TRUE},
     apply_to_toppings : {FALSE}, applicable_products : {{1}}]

SubtotalInputs == {8, 60}

NextDiscount ==
    \/ \E p \in Products, q \in 1..MaxQty :
          carts[Shopper] = << >> /\ AddToCart(Shopper, p, NoSize, << >>, q, FALSE)
    \/ \E input \in PromoInputsDiscount : CreatePromotion("admin", "SAVE", input)
    \/ \E subtotal \in SubtotalInputs, fee \in FeeInputs :
          ValidatePromotion("SAVE", subtotal, fee)
    \/ \E order_type \in OrderTypes, fee \in FeeInputs :
          CreateOrder(Shopper, order_type, Some("12 High St"), fee, "SAVE")

SpecDiscount == Init /\ [][NextDiscount]_vars

(***************************************************************************)
(* Checkout with a promotion whose validity (flag, window, usage limit,    *)
(* minimum order) varies, while time passes.                               *)
(***************************************************************************)
PromoInputsValidity ==
    [discount_type : {"fixed"}, discount_value : {5},
     minimum_order_amount : {None, Some(20)}, maximum_discount : {None},
     usage_limit : {None, Some(0), Some(1)}, times_used : {0},
     is_active : BOOLEAN, valid_from : {0, 1}, valid_until : {1},
     apply_to_entire_order : {TRUE}, apply_to_base_price : {TRUE},
     apply_to_toppings : {FALSE}, applicable_products : {{}}]

NextValidity ==
    \/ \E q \in 1..MaxQty :
          carts[Shopper] = << >> /\ AddToCart(Shopper, 1, 1, << >>, q, FALSE)
    \/ \E input \in PromoInputsValidity : CreatePromotion("admin", "SAVE", input)
    \/ Tick
    \/ \E code \in {"SAVE", "NOPE"} : CreateOrder(Shopper, "pickup", None, None, code)
    \/ \E code \in {"SAVE", "NOPE"}, subtotal \in {13, 26} :
          ValidatePromotion(code, subtotal, None)

SpecValidity == Init /\ [][NextValidity]_vars

(***************************************************************************)
(* The back office: staff adjust, receive and return stock, acknowledge    *)
(* alerts and ring up POS orders.                                          *)
(***************************************************************************)
Clerk == "clerk"
POSItems == {<< [productId |-> p, quantity |-> q, sizeId |-> NoSize, toppings |-> << >>] >> :
                p \in Products, q \in 1..MaxQty}

NextInventory ==
    \/ \E d \in {-5, -1, 2}, ty \in {"adjustment", "damaged"} :
          AdjustStock(Clerk, 1, d, ty, 0)
    \/ \E q \in {1, 3} : ReceiveStock(Clerk, 1, q)
    \/ ReturnStock(Clerk, 1, 1, 0)
    \/ \E i \in 1..MaxMovements : AcknowledgeStockAlert(Clerk, i)
    \/ StockItemByProduct(1)
    \/ \E items \in POSItems : CreatePOSOrder(Clerk, "pickup", None, items)

SpecInventory == Init /\ [][NextInventory]_vars

(***************************************************************************)
(* Orders and the ledger: a shopper checks out a cart and a clerk rings up *)
(* POS orders, while stock is received and looked up.                      *)
(***************************************************************************)
NextFulfilment ==
    \/ \E p \in Products, q \in 1..MaxQty :
          carts[Shopper] = << >> /\ AddToCart(Shopper, p, NoSize, << >>, q, FALSE)
    \/ CreateOrder(Shopper, "pickup", None, None, "")
    \/ \E items \in POSItems : CreatePOSOrder(Clerk, "pickup", None, items)
    \/ \E q \in {1, 3} : ReceiveStock(Clerk, 1, q)
    \/ StockItemByProduct(1)

SpecFulfilment == Init /\ [][NextFulfilment]_vars

(***************************************************************************)
(* The kitchen: orders come in from checkout and from the POS at time 0,   *)
(* and staff move them through their statuses while time passes.           *)
(***************************************************************************)
StatusInputs == Statuses \cup {"refunded", "DELIVERED", "Pending"}

NextStatus ==
    \/ carts[Shopper] = << >> /\ now = 0
          /\ AddToCart(Shopper, 2, NoSize, << >>, 1, FALSE)
    \/ CreateOrder(Shopper, "pickup", None, None, "")
    \/ now = 0 /\ CreatePOSOrder(Clerk, "pickup", None,
                      << [productId |-> 2, quantity |-> 1, sizeId |-> NoSize,
                          toppings |-> << >>] >>)
    \/ Tick
    \/ \E u \in Actors, i \in 1..MaxOrders, st \in StatusInputs :
          UpdateOrderStatus(u, i, st)

SpecStatus == Init /\ [][NextStatus]_vars

(***************************************************************************)
(* Two shoppers check out at the same time with the same promotion code.   *)
(***************************************************************************)
PromoInputsRace ==
    [discount_type : {"fixed"}, discount_value : {5},
     minimum_order_amount : {None}, maximum_discount : {None},
     usage_limit : {None, Some(1)}, times_used : {0},
     is_active : {TRUE}, valid_from : {0}, valid_until : {MaxTime},
     apply_to_entire_order : {TRUE}, apply_to_base_price : {TRUE},
     apply_to_toppings : {FALSE}, applicable_products : {{}}]

NextPromoRace ==
    \/ \E s \in Sessions :
          /\ carts[s] = << >>
          /\ \A pr \in Procs : txn[pr].pc = "idle"
          /\ AddToCart(s, 1, NoSize, << >>, 1, FALSE)
    \/ \E input \in PromoInputsRace :
          /\ \A pr \in Procs : txn[pr].pc = "idle"
          /\ CreatePromotion("admin", "SAVE", input)
    \/ \E pr \in Procs, code \in {"", "SAVE"} :
          /\ Len(orders) < MaxOrders + 1
          /\ carts[pr] # << >>
          /\ co_create_order(pr, pr, "pickup", None, None, code)
    \/ \E pr \in Procs : co_read_promotion(pr)
    \/ \E pr \in Procs : co_delete_order(pr)
    \/ \E pr \in Procs : co_save_promotion(pr)
    \/ \E pr \in Procs : co_save_order(pr)
    \/ \E pr \in Procs : co_clear_cart(pr)

SpecPromoRace == Init /\ [][NextPromoRace]_vars

(***************************************************************************)
(* Two clerks adjust the stock of the same product at the same time.       *)
(***************************************************************************)
NextStockRace ==
    \/ /\ \A pr \in Procs : txn[pr].pc = "idle"
       /\ StockItemByProduct(1)
    \/ \E pr \in Procs, d \in {-1, 1, 2} : adjust_stock_read(pr, 1, d, "adjustment")
    \/ \E pr \in Procs : adjust_stock_create_movement(pr)
    \/ \E pr \in Procs : adjust_stock_save(pr)
    \/ \E pr \in Procs : request_finished(pr)

SpecStockRace == Init /\ [][NextStockRace]_vars

(***************************************************************************)
(* The checkout's inputs: order types in any case and one that is neither  *)
(* delivery nor pickup; an address that is absent, empty, a single space   *)
(* or a street; a fee that is absent, 0 or 3; with and without a code.     *)
(***************************************************************************)
OrderTypeInputs == {"delivery", "pickup", "Delivery", "PICKUP", "dine_in"}
AddressInputs == {None, Some(""), Some(" "), Some("12 High St")}
CheckoutFeeInputs == {None, Some(0), Some(3)}
PromoInputsCheckout ==
    [discount_type : {"fixed"}, discount_value : {5},
     minimum_order_amount : {None}, maximum_discount : {None},
     usage_limit : {None}, times_used : {0},
     is_active : {TRUE}, valid_from : {0}, valid_until : {1},
     apply_to_entire_order : {TRUE}, apply_to_base_price : {TRUE},
     apply_to_toppings : {FALSE}, applicable_products : {{}}]

NextCheckout ==
    \/ \E p \in Products, q \in 1..MaxQty :
          carts[Shopper] = << >> /\ AddToCart(Shopper, p, NoSize, << >>, q, FALSE)
    \/ ClearCart(Shopper)
    \/ \E input \in PromoInputsCheckout : CreatePromotion("admin", "SAVE", input)
    \/ \E order_type \in OrderTypeInputs, delivery_address \in AddressInputs,
          fee \in CheckoutFeeInputs, code \in {"", "SAVE"} :
          CreateOrder(Shopper, order_type, delivery_address, fee, code)

SpecCheckout == Init /\ [][NextCheckout]_vars

(***************************************************************************)
(* One session that fills its cart and checks out more than once.          *)
(***************************************************************************)
ToppingInputsReorder == {<< >>, << 1, 2 >>}

NextReorder ==
    \/ \E ids \in ToppingInputsReorder : AddToCart(Shopper, 1, NoSize, ids, 1, FALSE)
    \/ CreateOrderWithin(MaxOrders + 1, Shopper, "pickup", None, None, "")

SpecReorder == Init /\ [][NextReorder]_vars

(***************************************************************************)
(* Orders on file while the menu, the promotions, the stock and the cart   *)
(* change around them and staff move the orders through their statuses.    *)
(***************************************************************************)
PromoInputsEdit ==
    [discount_type : {"fixed"}, discount_value : {5},
     minimum_order_amount : {None}, maximum_discount : {None},
     usage_limit : {None}, times_used : {0},
     is_active : BOOLEAN, valid_from : {0}, valid_until : {MaxTime},
     apply_to_entire_order : {TRUE}, apply_to_base_price : {TRUE},
     apply_to_toppings : {FALSE}, applicable_products : {{}}]

\* The shopper checks out with the code; then the menu, the promotion and
\* the stock are edited and the shopper checks out again.
NextFrozen ==
    \/ carts[Shopper] = << >> /\ AddToCart(Shopper, 2, 2, << 1 >>, 1, TRUE)
    \/ CreateOrderWithin(MaxOrders + 1, Shopper, "pickup", None, None, "SAVE")
    \/ \E i \in 1..(MaxOrders + 1) : UpdateOrderStatus("admin", i, "delivered")
    \/ orders # << >> /\ UpdateProduct("admin", 2, Some(12), Some(<< "salad" >>))
    \/ orders # << >> /\ DeleteProduct("admin", 2)
    \/ orders # << >> /\ UpdateSize("admin", 2, Some(4))
    \/ orders # << >> /\ UpdateTopping("admin", 1, Some(5))
    \/ \E input \in PromoInputsEdit :
          orders = << >> /\ input.is_active /\ CreatePromotion("admin", "SAVE", input)
    \/ \E input \in PromoInputsEdit :
          orders # << >> /\ ~input.is_active /\ UpdatePromotion("admin", "SAVE", input)
    \/ orders # << >> /\ DeletePromotion("admin", "SAVE")
    \/ orders # << >> /\ AdjustStock(Clerk, 1, -1, "adjustment", 0)
    \/ orders # << >> /\ ClearCart(Shopper)

SpecFrozen == Init /\ [][NextFrozen]_vars

(***************************************************************************)
(* Combos: the shopper takes a product with or without its included items, *)
(* the included items of the combo are edited, and the shopper checks out. *)
(***************************************************************************)
NextCombo ==
    \/ \E p \in Products, q \in 1..MaxQty, combo \in BOOLEAN :
          AddToCart(Shopper, p, NoSize, << >>, q, combo)
    \/ \E names \in {<< "salad" >>, << >>} : UpdateProduct("admin", 2, None, Some(names))
    \/ CreateOrder(Shopper, "pickup", None, None, "")

SpecCombo == Init /\ [][NextCombo]_vars

(***************************************************************************)
(* Editing a cart: lines are added, changed and removed, with topping ids  *)
(* that exist and are allowed, that exist and are not allowed (2 on        *)
(* product 2) and that do not exist (3), and with quantities around 0.     *)
(***************************************************************************)
ToppingInputsEdit == {<< >>, << 1 >>, << 2 >>, << 3 >>}
QuantityInputsEdit == {-1, 0, 1}

NextCartEdit ==
    \/ \E p \in Products, ids \in ToppingInputsEdit, q \in QuantityInputsEdit :
          AddToCart(Shopper, p, NoSize, ids, q, FALSE)
    \/ \E i \in 1..MaxLines, quantity \in {None, Some(0), Some(2)},
          ids \in {None} \cup {Some(t) : t \in ToppingInputsEdit},
          combo \in {None, Some(TRUE), Some(FALSE)} :
          UpdateCartItem(Shopper, i, quantity, None, ids, combo)
    \/ \E i \in 1..MaxLines : RemoveFromCart(Shopper, i)
    \/ ClearCart(Shopper)

SpecCartEdit == Init /\ [][NextCartEdit]_vars

(***************************************************************************)
(* Sizes: lines are added and resized and POS orders are rung up with a    *)
(* size the product allows, one it does not allow, and one that does not   *)
(* exist (3).                                                              *)
(***************************************************************************)
SizeInputs == {NoSize, 1, 2, 3}

NextSizes ==
    \/ \E p \in Products, size \in SizeInputs :
          AddToCart(Shopper, p, size, << >>, 1, FALSE)
    \/ \E i \in 1..MaxLines, size \in SizeInputs :
          UpdateCartItem(Shopper, i, None, Some(size), None, None)
    \/ \E i \in 1..MaxLines : RemoveFromCart(Shopper, i)
    \/ \E p \in Products, size \in SizeInputs :
          CreatePOSOrder(Clerk, "pickup", None,
                         << [productId |-> p, quantity |-> 1, sizeId |-> size,
                             toppings |-> << >>] >>)

SpecSizes == Init /\ [][NextSizes]_vars

\* The POS terminal: orders of one or two items, with and without deductions
\* that raise, on a stock that was received before or not at all.
MaxPOSItems == 2
POSItemInputs == {[productId |-> 1, quantity |-> 3, sizeId |-> NoSize, toppings |-> << >>],
                  [productId |-> 2, quantity |-> 1, sizeId |-> NoSize, toppings |-> << >>]}
\* sell_stock is called, and so can raise, for the products that track only
RaisedInputs(items) ==
    {raised \in [1..Len(items) -> BOOLEAN] :
        \A i \in 1..Len(items) : raised[i] => track_inventory(items[i].productId)}
POSOrders == UNION {[1..n -> POSItemInputs] : n \in 1..MaxPOSItems}
NextPOS ==
    \/ \E q \in {1, 2, 3} : ReceiveStock(Clerk, 1, q)
    \/ \E items \in POSOrders : \E raised \in RaisedInputs(items) :
          CreatePOSOrderWith(raised, Clerk, "pickup", None, items)

SpecPOS == Init /\ [][NextPOS]_vars

\* The staff-gated mutations, called by every kind of actor.
GateOrder == << [productId |-> 1, quantity |-> 1, sizeId |-> NoSize, toppings |-> << >>] >>
NextGate ==
    \E u \in AllActors :
       \/ CreatePOSOrder(u, "pickup", None, GateOrder)
       \/ UpdateOrderStatus(u, 1, "preparing")
       \/ AdjustStock(u, 1, -1, "adjustment", 0)
       \/ ReceiveStock(u, 1, 2)
       \/ ReturnStock(u, 1, 1, 0)
       \/ AcknowledgeStockAlert(u, 1)

SpecGate == Init /\ [][NextGate]_vars

\* A checkout of the shopper's cart, statement by statement, while the same
\* session goes on adding to the cart and changing its lines.
NextCartRace ==
    \/ \E p \in Products : AddToCart(Shopper, p, NoSize, << >>, 1, FALSE)
    \/ \E i \in 1..MaxLines : UpdateCartItem(Shopper, i, Some(2), None, None, None)
    \/ /\ Len(orders) < MaxOrders
       /\ co_read_total(1, Shopper, "pickup", None, None, "")
    \/ co_create_order_items(1)
    \/ co_save_order(1)
    \/ co_clear_cart(1)

SpecCartRace == Init /\ [][NextCartRace]_vars

(***************************************************************************)
(* Properties                                                              *)
(***************************************************************************)
OrderIndexes == 1..Len(orders)
SizeDelta(size) == IF size = NoSize THEN 0 ELSE price_modifier(size)
\* (b + s + t1 + ... + tn) * q, each topping counted once per unit
OncePerUnit(p, size, toppings, q) ==
    (base_price(p) + SizeDelta(size) + SumPrices(toppings)) * q

\* C1: every cart line made by addToCart, and every order item copied from
\* one at checkout, has subtotal (b + s + t1 + ... + tn) * q: the base price,
\* the size delta and each topping price once, times the quantity.
C1_SubtotalCountsEachToppingOnce ==
    /\ \A i \in 1..Len(carts[Shopper]) :
          LET line == carts[Shopper][i] IN
          get_subtotal(line) =
              OncePerUnit(line.product, line.size, line.selected_toppings, line.quantity)
    /\ \A o \in OrderIndexes : \A k \in 1..Len(orders[o].items) :
          LET item == orders[o].items[k] IN
          orders[o].source = "cart" =>
              item.subtotal =
                  OncePerUnit(item.product_id, item.size_id, item.selected_toppings,
                              item.quantity)

\* The state of a promotion code as the promotion evaluator defines it:
\* not found, inactive, not yet started, expired, usage exhausted (a usage
\* limit is set and reached), below minimum, valid.
PromotionState(code, subtotal) ==
    IF ~IsSet(promos[code]) THEN "not_found"
    ELSE LET promo == Val(promos[code]) IN
         IF ~promo.is_active THEN "inactive"
         ELSE IF now < promo.valid_from THEN "not_yet_started"
         ELSE IF now > promo.valid_until THEN "expired"
         ELSE IF IsSet(promo.usage_limit) /\ promo.times_used >= Val(promo.usage_limit)
              THEN "usage_exhausted"
         ELSE IF IsSet(promo.minimum_order_amount)
                 /\ subtotal < Val(promo.minimum_order_amount) THEN "below_minimum"
         ELSE "valid"

\* C2: a createOrder call whose promotion code is invalid for any reason
\* leaves no order behind, leaves the cart's lines as they were and changes
\* no promotion's times_used.
C2_InvalidPromotionAbortsCheckout ==
    [][ (/\ last'.op = "createOrder"
         /\ last'.code \in Codes
         /\ PromotionState(last'.code, get_total(carts[Shopper])) # "valid")
        => (orders' = orders /\ carts' = carts /\ promos' = promos) ]_vars

Quiescent == \A pr \in Procs : txn[pr].pc \in {"idle", "done", "failed"}
OrdersCarrying(code) == {i \in OrderIndexes : orders[i].discount_code = code}

\* C3: once the concurrent checkouts have returned, a promotion with usage
\* limit L that stood at times_used = L - 1 has let at most one of them
\* through: no more than L orders carry its code, times_used <= L, and
\* times_used equals the number of orders carrying the code.
C3_ConcurrentCheckoutsRespectUsageLimit ==
    Quiescent =>
        \A code \in Codes :
            (IsSet(promos[code]) /\ IsSet(Val(promos[code]).usage_limit)) =>
                LET promo == Val(promos[code]) IN
                /\ Cardinality(OrdersCarrying(code)) <= Val(promo.usage_limit)
                /\ promo.times_used <= Val(promo.usage_limit)
                /\ promo.times_used = Cardinality(OrdersCarrying(code))

\* C4: when two adjust_stock calls on the same product have both returned,
\* their movements and the final quantity are those of running one call
\* after the other: the second call's quantity_before is the first call's
\* quantity_after, and the StockItem holds the second call's quantity_after.
C4_ConcurrentAdjustmentsSerialize ==
    (\A pr \in Procs : txn[pr].pc = "done" /\ txn[pr].product = 1) =>
        \E a, b \in Procs :
            /\ a # b
            /\ movements[txn[b].number].quantity_before =
                  movements[txn[a].number].quantity_after
            /\ Val(stock[1]).quantity = movements[txn[b].number].quantity_after

\* C5: stock never goes below zero; every movement records quantity_after =
\* max(0, quantity_before + quantity_change), keeps the requested signed
\* delta as its quantity_change, and leaves the StockItem at quantity_after.
StockOps == {"adjustStock", "receiveStock", "returnStock"}
C5_StockFloor ==
    /\ \A p \in Products : IsSet(stock[p]) => Val(stock[p]).quantity >= 0
    /\ \A i \in 1..Len(movements) :
          movements[i].quantity_after =
              Max(0, movements[i].quantity_before + movements[i].quantity_change)
    /\ \A p \in Products :
          LET mine == {i \in 1..Len(movements) : movements[i].product = p} IN
          mine # {} =>
              /\ IsSet(stock[p])
              /\ \E i \in mine :
                    /\ \A j \in mine : j <= i
                    /\ Val(stock[p]).quantity = movements[i].quantity_after
    /\ (last.op \in StockOps /\ last.ok) =>
          /\ movements # << >>
          /\ movements[Len(movements)].quantity_change = last.arg

\* a sale or adjustment larger than the stock on hand was clamped
C5_ClampedMovementSeen ==
    \E i \in 1..Len(movements) :
        /\ movements[i].quantity_before > 0
        /\ movements[i].quantity_before + movements[i].quantity_change < 0
        /\ movements[i].quantity_after = 0
        /\ Val(stock[movements[i].product]).quantity = 0

ActiveAlerts(p) == {i \in 1..Len(alerts) : alerts[i].product = p /\ alerts[i].status = "active"}
StockedProducts == {p \in Products : IsSet(stock[p])}

\* C6 as stated: every StockItem at or below its reorder level has exactly
\* one active alert, every StockItem above it has none.
C6_ExactlyOneActiveAlertWhenLow ==
    \A p \in StockedProducts :
        IF is_low_stock(Val(stock[p]))
        THEN Cardinality(ActiveAlerts(p)) = 1
        ELSE ActiveAlerts(p) = {}

\* C6, amended: a StockItem has at most one active alert and none while its
\* quantity is above the reorder level; right after a stock adjustment that
\* leaves it at or below the reorder level it has exactly one.
C6_AtMostOneActiveAlert ==
    /\ \A p \in StockedProducts :
          /\ Cardinality(ActiveAlerts(p)) <= 1
          /\ ~is_low_stock(Val(stock[p])) => ActiveAlerts(p) = {}
    /\ (last.op \in StockOps /\ last.ok /\ is_low_stock(Val(stock[last.ref])))
          => Cardinality(ActiveAlerts(last.ref)) = 1

\* a low StockItem whose earlier alert was acknowledged got a fresh active
\* alert from the next adjustment
C6_AlertRaisedAgainAfterAcknowledge ==
    \E p \in StockedProducts :
        /\ is_low_stock(Val(stock[p]))
        /\ Cardinality(ActiveAlerts(p)) = 1
        /\ \E i \in 1..Len(alerts) : alerts[i].product = p /\ alerts[i].status = "acknowledged"
        /\ last.op \in StockOps /\ last.ok

\* C7: after a successful cart checkout every order item whose product
\* tracks inventory has a sale movement with quantity_change = -quantity and
\* the order number as reference.
C7_CheckoutSellsStock ==
    \A o \in OrderIndexes : \A k \in 1..Len(orders[o].items) :
        LET item == orders[o].items[k] IN
        (orders[o].source = "cart" /\ track_inventory(item.product_id)) =>
            \E i \in 1..Len(movements) :
                /\ movements[i].movement_type = "sale"
                /\ movements[i].product = item.product_id
                /\ movements[i].quantity_change = -item.quantity
                /\ movements[i].reference = orders[o].number

\* The order life cycle as the specification draws it.
ChainNext(st) ==
    CASE st = "pending" -> {"confirmed"}
      [] st = "confirmed" -> {"preparing"}
      [] st = "preparing" -> {"ready"}
      [] st = "ready" -> {"delivered", "picked_up"}
      [] OTHER -> {}
Terminal == {"delivered", "picked_up", "cancelled"}
InLifeCycle(old, new) ==
    new \in ChainNext(old) \/ (new = "cancelled" /\ old \notin Terminal)

\* C8 as stated: updateOrderStatus only moves an order along pending ->
\* confirmed -> preparing -> ready -> delivered | picked_up, or to cancelled
\* from a non-terminal status.
C8_OnlyLifeCycleTransitions ==
    [][ \A i \in OrderIndexes :
           (i <= Len(orders') /\ orders'[i].status # orders[i].status)
               => InLifeCycle(orders[i].status, orders'[i].status) ]_vars

\* C8, amended: updateOrderStatus performs every transition a permitted
\* actor requests between any two of the seven statuses (named in any
\* letter case), whatever the current status; it rejects, leaving the
\* orders unchanged, only a request by an actor without the order
\* permission, for an unknown order, or for a status outside the seven.
C8_AnyTransitionBetweenStatuses ==
    [][ last'.op = "updateOrderStatus" =>
           /\ last'.ok <=> (/\ has_order_permission(last'.actor)
                            /\ last'.ref \in OrderIndexes
                            /\ lower(last'.code) \in Statuses)
           /\ last'.ok => /\ orders'[last'.ref].status = lower(last'.code)
                          /\ \A i \in OrderIndexes :
                                i # last'.ref => orders'[i] = orders[i]
           /\ ~last'.ok => orders' = orders ]_vars

\* an order that was delivered has been moved back to pending
C8_LeftTerminalStatus ==
    /\ last.op = "updateOrderStatus" /\ last.ok
    /\ last.err = "delivered"
    /\ orders[last.ref].status = "pending"

CompletedIffDone(order) == IsSet(order.completed_at) <=> order.status \in Completed

\* C9: completed_at is set exactly while the status is delivered or
\* picked_up: stamped with the current time when the status enters that set,
\* kept by a move between delivered and picked_up, cleared by a move to any
\* other status.
C9_CompletedAtTracksStatus ==
    [][ \A i \in 1..Len(orders') :
           /\ CompletedIffDone(orders'[i])
           /\ i <= Len(orders) =>
                 LET old == orders[i]
                     new == orders'[i]
                 IN /\ (new.status \in Completed /\ old.status \notin Completed)
                          => new.completed_at = Some(now)
                    /\ (new.status \in Completed /\ old.status \in Completed)
                          => new.completed_at = old.completed_at
                    /\ new.status \notin Completed => new.completed_at = None ]_vars

\* an order moved from delivered to picked_up kept its earlier stamp
C9_StampKeptBetweenCompletedStatuses ==
    /\ last.op = "updateOrderStatus" /\ last.ok
    /\ last.err = "delivered"
    /\ orders[last.ref].status = "picked_up"
    /\ IsSet(orders[last.ref].completed_at)
    /\ Val(orders[last.ref].completed_at) < now

\* C10: every stored order has total = subtotal + delivery_fee -
\* discount_amount and 0 <= discount_amount <= subtotal + delivery_fee.
C10_TotalAndDiscountBounds ==
    \A o \in OrderIndexes :
        /\ orders[o].total =
              orders[o].subtotal + orders[o].delivery_fee - orders[o].discount_amount
        /\ 0 <= orders[o].discount_amount
        /\ orders[o].discount_amount <= orders[o].subtotal + orders[o].delivery_fee

\* The base the specification bounds a discount by: the whole subtotal for
\* an order-wide promotion (and for the query, which sees no items), the sum
\* over the promotion's products otherwise.
DiscountableBase(promo, subtotal, items) ==
    IF promo.apply_to_entire_order \/ items = << >> THEN subtotal
    ELSE ItemsDiscountable(promo, items)

\* the promotion, subtotal and items the last discount was computed from
LastPromo == Val(promos[last.code])
LastSubtotal == IF last.op = "validatePromotion" THEN last.ref
                ELSE orders[Len(orders)].subtotal
LastItems == IF last.op = "validatePromotion" THEN << >>
             ELSE orders[Len(orders)].items
DiscountComputed ==
    /\ last.op \in {"validatePromotion", "createOrder"}
    /\ last.ok
    /\ last.code \in Codes

\* C11: the discount calculate_discount returns for a valid promotion of any
\* kind is at least 0 and at most the discountable base, and for the fixed
\* kind it is min(discount_value, discountable base).
C11_DiscountWithinBase ==
    DiscountComputed =>
        LET base == DiscountableBase(LastPromo, LastSubtotal, LastItems) IN
        /\ 0 <= last.arg
        /\ last.arg <= base * Hundred
        /\ LastPromo.discount_type = "fixed" =>
              last.arg = Min(LastPromo.discount_value, base) * Hundred

\* C12: a percentage promotion grants discountable base * value / 100, and
\* whenever maximum_discount is set, to 0 as well as to any other amount,
\* the discount is no more than maximum_discount.
C12_PercentageCappedWheneverCapSet ==
    (DiscountComputed /\ LastPromo.discount_type = "percentage") =>
        LET base == DiscountableBase(LastPromo, LastSubtotal, LastItems)
            pct == base * LastPromo.discount_value
            cap == LastPromo.maximum_discount
        IN /\ ~IsSet(cap) => last.arg = pct
           /\ IsSet(cap) => last.arg = Min(pct, Val(cap) * Hundred)

UsageExhausted(promo) ==
    IsSet(promo.usage_limit) /\ promo.times_used >= Val(promo.usage_limit)

\* C13: a promotion whose usage limit is set, to 0 as well as to any other
\* number, and reached is reported as not valid by validatePromotion (as
\* having reached its usage limit when nothing else is wrong with it) and is
\* refused at checkout, so that times_used never exceeds usage_limit.
C13_UsageLimitEnforced ==
    /\ (/\ last.op = "validatePromotion"
        /\ IsSet(promos[last.code])
        /\ UsageExhausted(Val(promos[last.code])))
          => /\ ~last.ok
             /\ PromotionState(last.code, last.ref) = "usage_exhausted"
                   => last.err = "This promotion has reached its usage limit"
    /\ \A code \in Codes :
          (IsSet(promos[code]) /\ IsSet(Val(promos[code]).usage_limit))
              => Val(promos[code]).times_used <= Val(Val(promos[code]).usage_limit)

IdBag(seq) == [t \in Toppings |-> Cardinality({i \in 1..Len(seq) : seq[i] = t})]
LineConfig(line) ==
    << line.product, line.size,
       IdBag([i \in 1..Len(line.selected_toppings) |-> line.selected_toppings[i].id]),
       line.include_combo_items >>
RequestConfig(p, size, ids, combo) == << p, size, IdBag(ids), combo /\ is_combo(p) >>

\* C15: addToCart of a configuration that matches a line of the cart leaves
\* the number of lines unchanged, adds the quantity to the matching line and
\* sets its unit price to the current catalog price; a configuration that
\* matches no line appends exactly one line.
C15_MatchingConfigurationMerges ==
    [][ \A r \in MergeInputs :
           (AddToCart(Shopper, r.p, r.size, r.ids, r.q, r.combo) /\ last'.ok) =>
               LET old == carts[Shopper]
                   new == carts'[Shopper]
                   cfg == RequestConfig(r.p, r.size, r.ids, r.combo)
                   hits == {i \in 1..Len(old) : LineConfig(old[i]) = cfg}
                   price == get_current_base_price(r.p)
                            + (IF r.size = NoSize THEN 0 ELSE price_modifier(r.size))
                            + topping_price(1) * IdBag(r.ids)[1]
                            + topping_price(2) * IdBag(r.ids)[2]
               IN IF hits # {}
                  THEN /\ Len(new) = Len(old)
                       /\ \E i \in hits :
                             /\ new[i].quantity = old[i].quantity + r.q
                             /\ new[i].unit_price = price
                             /\ LineConfig(new[i]) = cfg
                             /\ \A j \in 1..Len(old) : j # i => new[j] = old[j]
                  ELSE /\ Len(new) = Len(old) + 1
                       /\ \A j \in 1..Len(old) : new[j] = old[j]
                       /\ LineConfig(new[Len(new)]) = cfg
                       /\ new[Len(new)].quantity = r.q
                       /\ new[Len(new)].unit_price = price ]_vars

\* an addition made once the sale had begun was merged into the one line of
\* the cart: still one line, the summed quantity, the sale price
C15_MergedAtSalePrice ==
    /\ last.op = "addToCart" /\ last.ok /\ last.err = "merged"
    /\ Len(carts[Shopper]) = 1
    /\ carts[Shopper][1].product = 2
    /\ carts[Shopper][1].quantity = 2
    /\ is_on_sale(2)
    /\ carts[Shopper][1].unit_price = 6
    /\ carts[Shopper][1].selected_toppings = << >>

\* The message validatePromotion gives for each state of a promotion code.
MessageOfState(state) ==
    CASE state = "not_found" -> "Invalid promotion code"
      [] state = "inactive" -> "This promotion is not active"
      [] state = "not_yet_started" -> "This promotion hasn't started yet"
      [] state = "expired" -> "This promotion has expired"
      [] state = "usage_exhausted" -> "This promotion has reached its usage limit"
      [] state = "below_minimum" -> "Minimum order amount is"
      [] OTHER -> "Code applied"

\* C16: validatePromotion reports the first condition that fails in the
\* order not found, inactive, not yet started, expired, usage exhausted,
\* below minimum, and valid when none does; an inactive promotion is
\* reported as inactive even when it is outside its window or exhausted.
C16_FirstFailingConditionReported ==
    last.op = "validatePromotion" =>
        /\ last.err = MessageOfState(PromotionState(last.code, last.ref))
        /\ last.ok <=> PromotionState(last.code, last.ref) = "valid"

\* C17: a checkout rejected because of its promotion code gives the reason
\* validatePromotion gives for that code in the same state (one reason for
\* each of not found, inactive, not yet started, expired, usage exhausted
\* and below minimum).
C17_CheckoutReportsTheValidationReason ==
    (/\ last.op = "createOrder" /\ ~last.ok
     /\ last.code \in Codes
     /\ carts[Shopper] # << >>)
        => last.err =
              IF ~IsSet(promos[last.code]) THEN "Invalid promotion code"
              ELSE ValidationMessage(Val(promos[last.code]), now, get_total(carts[Shopper]))

\* The fee the checkout is to store: nothing for pickup, the caller's fee
\* for delivery, the store's default when the caller gives none.
ExpectedDeliveryFee(order_type, fee) ==
    IF lower(order_type) = "pickup" THEN 0
    ELSE IF IsSet(fee) THEN Val(fee)
    ELSE StoreSettings_delivery_fee

\* C18: the delivery_fee stored by a successful checkout is 0 for pickup
\* whatever fee the caller sent, the caller's fee for delivery when one is
\* sent, and StoreSettings.delivery_fee for delivery when none is sent.
C18_StoredDeliveryFee ==
    [][\A order_type \in OrderTypeInputs, delivery_address \in AddressInputs,
          fee \in CheckoutFeeInputs, code \in {"", "SAVE"} :
          (CreateOrder(Shopper, order_type, delivery_address, fee, code) /\ last'.ok)
             => orders'[Len(orders')].delivery_fee = ExpectedDeliveryFee(order_type, fee)
      ]_vars

\* str.strip() on the addresses a client sends
strip(a) == IF a = " " THEN "" ELSE a

\* An address that is absent or holds nothing but white space.
Blank(delivery_address) == ~IsSet(delivery_address) \/ strip(Val(delivery_address)) = ""

\* C19: createOrder fails and leaves the orders, the cart's lines and the
\* promotions' counters as they were when the session has no cart or an
\* empty one, when the order type is neither delivery nor pickup, and when
\* the order type is delivery and the address is absent or blank.
C19_RefusedCheckoutChangesNothing ==
    [][\A order_type \in OrderTypeInputs, delivery_address \in AddressInputs,
          fee \in CheckoutFeeInputs, code \in {"", "SAVE"} :
          (/\ CreateOrder(Shopper, order_type, delivery_address, fee, code)
           /\ \/ ~cartExists[Shopper]
              \/ carts[Shopper] = << >>
              \/ lower(order_type) \notin OrderTypes
              \/ lower(order_type) = "delivery" /\ Blank(delivery_address))
             => /\ ~last'.ok
                /\ orders' = orders
                /\ carts' = carts
                /\ promos' = promos
      ]_vars

\* C20: a successful checkout stores one OrderItem per cart line, with the
\* line's product, size, toppings, unit price and quantity and the subtotal
\* (unit_price + sum of topping prices) * quantity; order.subtotal is the sum
\* of the item subtotals; the cart is left without lines; and the order's
\* number differs from the number of every order the session placed before.
C20_CheckoutConsumesCart ==
    [][(CreateOrderWithin(MaxOrders + 1, Shopper, "pickup", None, None, "") /\ last'.ok)
          => LET cart == carts[Shopper]
                 order == orders'[Len(orders')]
                 n == Len(cart)
             IN /\ Len(orders') = Len(orders) + 1
                /\ Len(order.items) = n
                /\ \A i \in 1..n :
                      LET line == cart[n + 1 - i]
                          item == order.items[i]
                      IN /\ item.product_id = line.product
                         /\ item.size_id = line.size
                         /\ item.selected_toppings = line.selected_toppings
                         /\ item.unit_price = line.unit_price
                         /\ item.quantity = line.quantity
                         /\ item.subtotal =
                               (line.unit_price + SumPrices(line.selected_toppings))
                                  * line.quantity
                /\ order.subtotal = SumSubtotals(order.items)
                /\ carts'[Shopper] = << >>
                /\ \A j \in 1..Len(orders) : orders[j].number # order.number
      ]_vars

\* The session has placed a second order, with two lines of which one has
\* toppings, after its first, and its cart is empty again.
C20_SecondOrderPlaced ==
    /\ Len(orders) = 2
    /\ orders[1].number # orders[2].number
    /\ orders[1].cart_session_key = Shopper /\ orders[2].cart_session_key = Shopper
    /\ Len(orders[2].items) = 2
    /\ \E i \in 1..2 : orders[2].items[i].selected_toppings # << >>
    /\ last.op = "createOrder" /\ last.ok
    /\ carts[Shopper] = << >>

\* What an order carries apart from its status and its completion time.
Snapshot(order) == [order EXCEPT !.status = "", !.completed_at = None]

C22_OrderItemKeepsTheLineSnapshot ==
    [][(CreateOrder(Shopper, "pickup", None, None, "") /\ last'.ok)
          => LET cart == carts[Shopper]
                 order == orders'[Len(orders')]
                 n == Len(cart)
             IN \A i \in 1..n :
                   /\ order.items[i].is_combo = cart[n + 1 - i].include_combo_items
                   /\ order.items[i].included_items = cart[n + 1 - i].selected_included_items
      ]_vars

\* A list of topping ids of which one does not exist or is not allowed on p.
BadToppings(p, ids) ==
    \E k \in 1..Len(ids) : ids[k] \notin Toppings \/ ids[k] \notin available_toppings(p)

\* Every id of the request is on the line.
ToppingsStored(line, ids) ==
    \A k \in 1..Len(ids) :
        \E j \in 1..Len(line.selected_toppings) : line.selected_toppings[j].id = ids[k]

\* C23: addToCart and updateCartItem with a topping id that does not exist
\* or is not allowed on the product fail and leave the cart's lines as they
\* were; every topping id of a request that succeeds is on the resulting line.
C23_BadToppingRejected ==
    [][/\ \A p \in Products, ids \in ToppingInputsEdit, q \in QuantityInputsEdit :
             AddToCart(Shopper, p, NoSize, ids, q, FALSE)
                => /\ BadToppings(p, ids) => ~last'.ok /\ carts' = carts
                   /\ last'.ok => ToppingsStored(carts'[Shopper][last'.ref], ids)
       /\ \A i \in 1..MaxLines, quantity \in {None, Some(0), Some(2)},
             ids \in ToppingInputsEdit, combo \in {None, Some(TRUE), Some(FALSE)} :
             (i <= Len(carts[Shopper])
              /\ UpdateCartItem(Shopper, i, quantity, None, Some(ids), combo))
                => /\ BadToppings(carts[Shopper][i].product, ids)
                         => ~last'.ok /\ carts' = carts
                   /\ last'.ok => ToppingsStored(carts'[Shopper][i], ids)
      ]_vars

SizeAllowed(p, size) == size = NoSize \/ size \in available_sizes(p)

\* C24: every cart line and every order item has no size or a size its
\* product allows.
C24_SizesAllowed ==
    /\ \A i \in 1..Len(carts[Shopper]) :
          SizeAllowed(carts[Shopper][i].product, carts[Shopper][i].size)
    /\ \A i \in 1..Len(orders) : \A k \in 1..Len(orders[i].items) :
          SizeAllowed(orders[i].items[k].product_id, orders[i].items[k].size_id)

RECURSIVE Deducted(_, _)
\* The quantity of the items whose product tracks inventory and whose
\* deduction did not raise.
Deducted(items, raised) ==
    IF items = << >> THEN 0
    ELSE (IF track_inventory(items[1].productId) /\ ~raised[1]
          THEN items[1].quantity ELSE 0)
         + Deducted(Tail(items), Tail(raised))

QuantityOf(st, p) == IF IsSet(st[p]) THEN Val(st[p]).quantity ELSE 0

\* C25: a createPosOrder that succeeds adds exactly one order, with one
\* item per input item (same product and quantity); the stock of a product
\* that tracks inventory goes down by the quantities sold, not below zero,
\* through sale movements that carry the new order's number; the stock of a
\* product that does not track inventory is untouched; and the order is
\* there whether or not a deduction raised.
C25_POSOrderSellsStock ==
    [][\A items \in POSOrders : \A raised \in RaisedInputs(items) :
          (CreatePOSOrderWith(raised, Clerk, "pickup", None, items)
           /\ CreatePOSOrderError(Clerk, "pickup", None, items) = "")
             => LET order == orders'[Len(orders')] IN
                /\ last'.ok
                /\ Len(orders') = Len(orders) + 1
                /\ SubSeq(orders', 1, Len(orders)) = orders
                /\ Len(order.items) = Len(items)
                /\ \A i \in 1..Len(items) :
                      /\ order.items[i].product_id = items[i].productId
                      /\ order.items[i].quantity = items[i].quantity
                /\ \A p \in Products :
                      IF track_inventory(p)
                      THEN QuantityOf(stock', p)
                              = Max(0, QuantityOf(stock, p) - Deducted(items, raised))
                      ELSE stock'[p] = stock[p]
                /\ SubSeq(movements', 1, Len(movements)) = movements
                /\ Len(movements') - Len(movements)
                      = Cardinality({i \in 1..Len(items) :
                            track_inventory(items[i].productId) /\ ~raised[i]})
                /\ \A m \in Len(movements) + 1..Len(movements') :
                      /\ movements'[m].movement_type = "sale"
                      /\ movements'[m].reference = order.number
                      /\ track_inventory(movements'[m].product)
      ]_vars

\* A POS order of two items is stored although the deduction of one raised,
\* and the other deduction emptied the stock.
C25_OrderKeptAfterFailedDeduction ==
    /\ last.op = "createPosOrder" /\ last.ok
    /\ Len(orders) = 1 /\ Len(orders[1].items) = 2
    /\ \A i \in 1..2 : track_inventory(orders[1].items[i].product_id)
    /\ Len(movements) = 2 /\ movements[1].movement_type = "receipt"
    /\ movements[2].movement_type = "sale"
    /\ movements[2].quantity_before = 1 /\ movements[2].quantity_change = -3
    /\ QuantityOf(stock, 1) = 0

PermissionErrors == {"Permission denied", "Authentication required", "permission"}

\* The call was refused for want of permission and wrote nothing.
Refused ==
    /\ ~last'.ok /\ last'.err \in PermissionErrors
    /\ UNCHANGED << carts, cartExists, orders, promos, stock, movements, alerts,
                    catalog >>

\* C26: createPosOrder, adjustStock, receiveStock, returnStock and
\* acknowledgeStockAlert called by a request that is not signed in or by a
\* user without staff access, and updateOrderStatus called by a request that
\* is not signed in or by a user without the order permission, fail with a
\* permission error and leave orders, order items, stock quantities, stock
\* movements and alerts as they were.
C26_GatedMutationsRefuseOutsiders ==
    [][/\ \A u \in {"anon", "customer"} :
            /\ CreatePOSOrder(u, "pickup", None, GateOrder) => Refused
            /\ AdjustStock(u, 1, -1, "adjustment", 0) => Refused
            /\ ReceiveStock(u, 1, 2) => Refused
            /\ ReturnStock(u, 1, 1, 0) => Refused
            /\ AcknowledgeStockAlert(u, 1) => Refused
       /\ \A u \in {"anon", "customer", "clerk"} :
            UpdateOrderStatus(u, 1, "preparing") => Refused
      ]_vars

\* A staff user without the order permission was refused the status change
\* of an existing order, next to a stock with a movement and an active alert.
C26_ClerkRefusedOnExistingOrder ==
    /\ last.op = "updateOrderStatus" /\ ~last.ok /\ last.actor = "clerk"
    /\ last.err = "permission"
    /\ Len(orders) >= last.ref /\ orders[last.ref].status = "confirmed"
    /\ movements # << >>
    /\ \E i \in 1..Len(alerts) : alerts[i].status = "active"

\* The order a running checkout has stored is not what the checkout will
\* leave: the checkout is about to delete it for its promotion code, or its
\* discount and total are still to be written.
Provisional(pr, order) ==
    \/ txn[pr].pc = "invalid"
    \/ /\ txn[pr].pc \in {"validated", "counted"}
       /\ \/ order.discount_amount # Quantize(txn[pr].discount)
          \/ order.total # Quantize((order.subtotal + order.delivery_fee) * Hundred
                                    - txn[pr].discount)

\* C27: at no moment does the database hold an order of a checkout that is
\* later rejected for its promotion code, or an order whose discount_amount
\* and total are not the final ones.
C27_NoProvisionalOrderVisible ==
    \A pr \in Procs : \A i \in OrderIndexes :
        orders[i].number = txn[pr].number => ~Provisional(pr, orders[i])

\* C28: every cart line has a quantity of at least 1.
C28_QuantitiesPositive ==
    \A s \in Sessions : \A i \in 1..Len(carts[s]) : carts[s][i].quantity >= 1

\* C29: no two lines of a cart have the same product, size, topping set and
\* combo flag.
C29_NoDuplicateLines ==
    \A s \in Sessions : \A i, j \in 1..Len(carts[s]) :
        LineConfig(carts[s][i]) = LineConfig(carts[s][j]) => i = j

\* C30: every order's subtotal is the sum of its items' subtotals, and the
\* lines a checkout deletes from the cart when it completes are the lines
\* its order holds, as they are at that moment: none is lost, none is in the
\* order at another quantity or price.
C30_CheckoutLosesNoLine ==
    [][/\ \A i \in 1..Len(orders') :
            orders'[i].subtotal = SumSubtotals(orders'[i].items)
       /\ \A pr \in Procs :
            co_clear_cart(pr) =>
               orders[OrderIndex(txn[pr].number)].items
                  = OrderItemsOf(carts[txn[pr].session])
      ]_vars

====
